---- MODULE Spec2Model ----
(***************************************************************************)
(* Model of foundrole/jobs-mcp-proxy.                                      *)
(*                                                                         *)
(*   SpecProxy  : the message proxy engine, proxyServer (proxy-server.ts)  *)
(*   SpecDetect : the client identity resolver (client-detector.ts)        *)
(***************************************************************************)
EXTENDS Integers, Sequences, FiniteSets, TLC

VARIABLES
    \* ---- message proxy engine ----
    serverCapabilities,          \* the capability descriptor given to proxyServer
    getClient,                   \* what the optional resolver currently answers
    wired,                       \* proxyServer has run
    requestHandlers,             \* server.setRequestHandler calls, in order
    serverNotificationHandlers,  \* server.setNotificationHandler calls, in order
    clientNotificationHandlers,  \* per upstream object: setNotificationHandler calls
    invocations,                 \* handler invocations, in invocation order
    calls,                       \* calls the handlers made on a peer, in order
    \* ---- client identity resolver ----
    platform,                    \* process.platform
    parentPid,                   \* process.ppid of the proxy
    table,                       \* the OS process table as far as it was looked up
    pc,                          \* position of extractClientInfoFromParent
    currentPid,                  \* findRealClient's currentPid
    depth,                       \* findRealClient's depth
    lookups,                     \* the process looked up at each depth, in order
    identified,                  \* pids handed to identifyClientFromProcess
    extractorCalls,              \* number of VersionExtractor.extractVersion calls
    versionResult,               \* what VersionExtractor.extractVersion did
    clientInfo,                  \* the value the returned promise resolved to
    \* ---- startup: main, startProxy, startStdioServer ----
    startPc,                     \* position of main and the functions it awaits
    env,                         \* process.env.MCP_TARGET_URL
    config,                      \* what getProxyConfig returned
    steps,                       \* the steps startStdioServer has begun, in order
    upstream,                    \* the upstream Client startStdioServer created
    downstream,                  \* the downstream Server startStdioServer created
    startResult,                 \* what startStdioServer's promise settled to
    proxyResult,                 \* what startProxy's promise settled to
    signalHandlers,              \* signals with a listener registered by startProxy
    logs,                        \* safeConsoleError calls of startProxy and main
    exits,                       \* process.exit calls (the first ends the process)
    \* ---- VersionExtractor ----
    extractPc,                   \* position of VersionExtractor.extractVersion
    extractArgs,                 \* its arguments executablePath, processName
    fileReads,                   \* modules imported, files read, errors they threw
    extracted,                   \* what extractVersion's promise settled to
    answered,                    \* what the plist, PE or ELF reader answered
    \* ---- extractVersionFromCommand on its own ----
    cmdPc,                       \* position of one call of extractVersionFromCommand
    cmdLine,                     \* its argument cmd
    cmdVersion,                  \* what it returned
    \* ---- several startProxy calls in one process ----
    proxyCalls,                  \* the startProxy calls made, in order
    listeners                    \* process listeners of SIGINT and SIGTERM, in order

proxyVars == <<serverCapabilities, getClient, wired, requestHandlers,
               serverNotificationHandlers, clientNotificationHandlers,
               invocations, calls>>
detectVars == <<platform, parentPid, table, pc, currentPid, depth, lookups,
                identified, extractorCalls, versionResult, clientInfo>>
startVars == <<startPc, env, config, steps, upstream, downstream, startResult, proxyResult,
               signalHandlers, logs, exits>>
extractVars == <<extractPc, extractArgs, fileReads, extracted, answered>>
commandVars == <<cmdPc, cmdLine, cmdVersion>>
listenerVars == <<proxyCalls, listeners>>
vars == <<proxyVars, detectVars, startVars, extractVars, commandVars, listenerVars>>

(***************************************************************************)
(* Bounds of the model.                                                    *)
(***************************************************************************)
MaxInvocations == 2     \* handler invocations in one behaviour
MaxPid == 6             \* pids are 1..MaxPid; 0 is "no pid"

(***************************************************************************)
(*                       THE MESSAGE PROXY ENGINE                          *)
(***************************************************************************)
\* Upstream objects: "client" is the client argument of proxyServer, the others
\* are connections the resolver may answer with.
Clients == {"client", "alternate"}
\* getClient: not supplied, or supplied and currently answering a falsy value,
\* or an upstream object.
GetClientValues == {"undefined", "null", "alternate"}

\* Values of a request's / notification's params (opaque to the engine).
Params == { [is |-> "null"], [is |-> "malformed"] }
\* What the k-th call made on a peer can settle to: every call resolves to a
\* value of its own or rejects with an error of its own.
Outcomes(k) == { [status |-> "resolved", value |-> <<"result", k>>],
                 [status |-> "rejected", value |-> <<"error", k>>] }

Capabilities ==
    [logging : BOOLEAN, prompts : BOOLEAN,
     resources : {"absent", "empty", "subscribeFalse", "subscribeTrue"},
     tools : BOOLEAN]

\* The descriptors the forwarding behaviours are explored with: nothing, each
\* capability alone (resources with subscribe, which registers the base resource
\* handlers too), and logging together with tools.
NoCapabilities ==
    [logging |-> FALSE, prompts |-> FALSE, resources |-> "absent", tools |-> FALSE]
AllCapabilities ==
    [logging |-> TRUE, prompts |-> TRUE, resources |-> "subscribeTrue", tools |-> TRUE]
SampleCapabilities ==
    { NoCapabilities,
      [NoCapabilities EXCEPT !.logging = TRUE],
      [NoCapabilities EXCEPT !.prompts = TRUE],
      [NoCapabilities EXCEPT !.tools = TRUE],
      [NoCapabilities EXCEPT !.resources = "subscribeTrue"],
      [NoCapabilities EXCEPT !.logging = TRUE, !.tools = TRUE] }

RequestSchemas ==
    {"GetPromptRequestSchema", "ListPromptsRequestSchema",
     "ListResourcesRequestSchema", "ListResourceTemplatesRequestSchema",
     "ReadResourceRequestSchema", "SubscribeRequestSchema",
     "UnsubscribeRequestSchema", "CallToolRequestSchema",
     "ListToolsRequestSchema", "CompleteRequestSchema"}
NotificationSchemas ==
    {"LoggingMessageNotificationSchema", "ResourceUpdatedNotificationSchema"}

\* A registered forwarding closure: the schema it is keyed by, the peer it
\* calls ("upstream": getCurrentClient(), "downstream": server), the method it
\* calls there and what it passes ("params": args.params, "args": args).
Handler(schema, to, method, passes) ==
    [schema |-> schema, to |-> to, method |-> method, passes |-> passes]

\* getCurrentClient = () => getClient?.() || client
GetCurrentClientStale(resolver) == "client"
GetCurrentClient(resolver) ==
    IF resolver \in {"undefined", "null"} THEN "client" ELSE resolver

\* The setRequestHandler calls of proxyServer on server, in program order.
PromptsRequestHandlers(caps) ==
    IF caps.prompts
    THEN << Handler("GetPromptRequestSchema", "upstream", "getPrompt", "params"),
            Handler("ListPromptsRequestSchema", "upstream", "listPrompts", "params") >>
    ELSE << >>

ResourcesRequestHandlers(caps) ==
    IF caps.resources # "absent"
    THEN << Handler("ListResourcesRequestSchema", "upstream", "listResources", "params"),
            Handler("ListResourceTemplatesRequestSchema", "upstream",
                    "listResourceTemplates", "params"),
            Handler("ReadResourceRequestSchema", "upstream", "readResource", "params") >>
    ELSE << >>

SubscribeRequestHandlersWithResources(caps) ==
    IF caps.resources # "absent"
    THEN << Handler("SubscribeRequestSchema", "upstream", "subscribeResource", "params"),
            Handler("UnsubscribeRequestSchema", "upstream", "unsubscribeResource",
                    "params") >>
    ELSE << >>
SubscribeRequestHandlers(caps) ==
    IF caps.resources = "subscribeTrue"
    THEN << Handler("SubscribeRequestSchema", "upstream", "subscribeResource", "params"),
            Handler("UnsubscribeRequestSchema", "upstream", "unsubscribeResource",
                    "params") >>
    ELSE << >>

ToolsRequestHandlersUngated(caps) ==
    << Handler("CallToolRequestSchema", "upstream", "callTool", "params"),
       Handler("ListToolsRequestSchema", "upstream", "listTools", "params") >>
ToolsRequestHandlers(caps) ==
    IF caps.tools
    THEN << Handler("CallToolRequestSchema", "upstream", "callTool", "params"),
            Handler("ListToolsRequestSchema", "upstream", "listTools", "params") >>
    ELSE << >>

CompleteRequestHandlers(caps) ==
    << Handler("CompleteRequestSchema", "upstream", "complete", "params") >>

ServerRequestHandlers(caps) ==
    PromptsRequestHandlers(caps) \o ResourcesRequestHandlers(caps)
        \o SubscribeRequestHandlers(caps) \o ToolsRequestHandlers(caps)
        \o CompleteRequestHandlers(caps)

\* The setNotificationHandler calls of proxyServer on server, in program order.
ServerLoggingHandlersParamsOnly(caps) ==
    IF caps.logging
    THEN << Handler("LoggingMessageNotificationSchema", "upstream", "notification",
                    "params") >>
    ELSE << >>
ServerLoggingHandlers(caps) ==
    IF caps.logging
    THEN << Handler("LoggingMessageNotificationSchema", "upstream", "notification",
                    "args") >>
    ELSE << >>

ResourceUpdatedHandlers(caps) ==
    IF caps.resources = "subscribeTrue"
    THEN << Handler("ResourceUpdatedNotificationSchema", "upstream", "notification",
                    "args") >>
    ELSE << >>

ServerNotificationHandlers(caps) ==
    ServerLoggingHandlers(caps) \o ResourceUpdatedHandlers(caps)

\* The setNotificationHandler calls of proxyServer on getCurrentClient().
ClientNotificationHandlers(caps) ==
    IF caps.logging
    THEN << Handler("LoggingMessageNotificationSchema", "downstream", "notification",
                    "args") >>
    ELSE << >>

\* The handler a peer dispatches a message of `schema` to: a later registration
\* for the same schema replaces an earlier one.
Registered(regs, schema) == \E i \in 1..Len(regs) : regs[i].schema = schema
Dispatch(regs, schema) ==
    LET last == CHOOSE i \in 1..Len(regs) :
                   /\ regs[i].schema = schema
                   /\ \A j \in (i+1)..Len(regs) : regs[j].schema # schema
    IN  regs[last]

\* The calls one invocation of closure h with message args makes, in order.
\* by is the index of the invocation.
HandlerCallsValidate(h, args, resolver, by) ==
    << [peer |-> IF h.to = "upstream" THEN GetCurrentClient(resolver) ELSE "server",
        method |-> h.method,
        arg |-> IF h.passes = "params"
                THEN (IF args.params.is = "null" THEN [is |-> "empty object"]
                      ELSE args.params)
                ELSE args,
        by |-> by,
        outcome |-> [status |-> "pending"]] >>
HandlerCallsDeferred(h, args, resolver, by) == << >>
HandlerCalls(h, args, resolver, by) ==
    << [peer |-> IF h.to = "upstream" THEN GetCurrentClient(resolver) ELSE "server",
        method |-> h.method,
        arg |-> IF h.passes = "params" THEN args.params ELSE args,
        by |-> by,
        outcome |-> [status |-> "pending"]] >>

\* What the closure's promise settles to when the call it returned settles.
HandlerOutcomeWrapped(o) ==
    IF o.status = "rejected"
    THEN [status |-> "rejected", value |-> << "wrapped", o.value >>] ELSE o
HandlerOutcome(o) == o

Message(schema, P) == [method |-> schema, params |-> P]

ProxyInit(descriptors) ==
    /\ serverCapabilities \in descriptors
    /\ getClient \in GetClientValues
    /\ wired = FALSE
    /\ requestHandlers = << >>
    /\ serverNotificationHandlers = << >>
    /\ clientNotificationHandlers = [c \in Clients |-> << >>]
    /\ invocations = << >>
    /\ calls = << >>

\* proxyServer({client, getClient, server, serverCapabilities})
proxyServer ==
    /\ ~wired
    /\ wired' = TRUE
    /\ requestHandlers' = requestHandlers \o ServerRequestHandlers(serverCapabilities)
    /\ serverNotificationHandlers' =
           serverNotificationHandlers \o ServerNotificationHandlers(serverCapabilities)
    /\ clientNotificationHandlers' =
           [clientNotificationHandlers EXCEPT ![GetCurrentClient(getClient)] =
                @ \o ClientNotificationHandlers(serverCapabilities)]
    /\ UNCHANGED <<serverCapabilities, getClient, invocations, calls, detectVars, startVars, extractVars, commandVars, listenerVars>>

\* The caller's resolver starts answering something else (an upstream hot swap).
SwapUpstream ==
    /\ getClient # "undefined"
    /\ \E v \in GetClientValues \ {"undefined", getClient} : getClient' = v
    /\ UNCHANGED <<serverCapabilities, wired, requestHandlers,
                   serverNotificationHandlers, clientNotificationHandlers,
                   invocations, calls, detectVars, startVars, extractVars, commandVars, listenerVars>>

\* The promise a closure returns is the promise of the call it made: pending
\* until that call settles.
HandlerPromiseDetached(h) == [status |-> "resolved", value |-> << "result", 0 >>]
HandlerPromise(h) == [status |-> "pending"]

\* A peer dispatches one message to the closure registered for its schema.
Invoke(on, regs, schema, P) ==
    /\ Len(invocations) < MaxInvocations
    /\ Registered(regs, schema)
    /\ LET h == Dispatch(regs, schema)
           args == Message(schema, P)
           id == Len(invocations) + 1
       IN  /\ invocations' = Append(invocations,
                  [on |-> on, schema |-> schema, args |-> args,
                   outcome |-> HandlerPromise(h)])
           /\ calls' = calls \o HandlerCalls(h, args, getClient, id)
    /\ UNCHANGED <<serverCapabilities, getClient, wired, requestHandlers,
                   serverNotificationHandlers, clientNotificationHandlers, detectVars, startVars, extractVars, commandVars, listenerVars>>

\* The downstream peer sends a request to server.
DownstreamRequest ==
    \E schema \in RequestSchemas, P \in Params :
        Invoke("server", requestHandlers, schema, P)

\* The downstream peer sends a notification to server.
DownstreamNotification ==
    \E schema \in NotificationSchemas, P \in Params :
        Invoke("server", serverNotificationHandlers, schema, P)

\* An upstream connection receives a notification from the remote server.
UpstreamNotification ==
    \E c \in Clients, schema \in NotificationSchemas, P \in Params :
        Invoke(c, clientNotificationHandlers[c], schema, P)

\* The invocation whose promise is the promise of the k-th call: the closure
\* that made the call returned it.
AwaiterOldest(k) ==
    CHOOSE i \in 1..Len(invocations) :
        /\ invocations[i].outcome.status = "pending"
        /\ \A j \in 1..(i - 1) : invocations[j].outcome.status # "pending"
Awaiter(k) == calls[k].by

\* A call made by a closure settles, and with it the closure's own promise.
Settle ==
    \E k \in 1..Len(calls) :
        /\ calls[k].outcome.status = "pending"
        /\ \E o \in Outcomes(k) :
              /\ calls' = [calls EXCEPT ![k].outcome = o]
              /\ invocations' =
                     [invocations EXCEPT ![Awaiter(k)].outcome =
                          IF @.status = "pending" THEN HandlerOutcome(o) ELSE @]
        /\ UNCHANGED <<serverCapabilities, getClient, wired, requestHandlers,
                       serverNotificationHandlers, clientNotificationHandlers,
                       detectVars, startVars, extractVars, commandVars, listenerVars>>

(***************************************************************************)
(*                     THE CLIENT IDENTITY RESOLVER                        *)
(***************************************************************************)
\* Strings whose characters the code inspects are sequences of one-character
\* strings, so that case folding, substring tests and the regular
\* expressions are computed, not assumed.
UpperAlphabet == <<"A","B","C","D","E","F","G","H","I","J","K","L","M","N","O","P","Q","R","S","T","U","V","W","X","Y","Z">>
LowerAlphabet == <<"a","b","c","d","e","f","g","h","i","j","k","l","m","n","o","p","q","r","s","t","u","v","w","x","y","z">>
Digits == {"0", "1", "2", "3", "4", "5", "6", "7", "8", "9"}
Whitespace == {" ", "\t"}
Null == << "null" >>            \* the null a helper returns; no string has this form

Min(S) == CHOOSE x \in S : \A y \in S : x <= y
Max(S) == CHOOSE x \in S : \A y \in S : x >= y

\* String.prototype.toLowerCase
ToLowerCase(s) ==
    [i \in 1..Len(s) |->
        IF \E k \in DOMAIN UpperAlphabet : UpperAlphabet[k] = s[i]
        THEN LowerAlphabet[CHOOSE k \in DOMAIN UpperAlphabet : UpperAlphabet[k] = s[i]]
        ELSE s[i]]

\* String.prototype.includes
Includes(s, sub) ==
    \E i \in 0..(Len(s) - Len(sub)) : SubSeq(s, i + 1, i + Len(sub)) = sub

\* s has lit at positions i .. i+Len(lit)-1
HasAt(s, i, lit) ==
    /\ i >= 1
    /\ i + Len(lit) - 1 <= Len(s)
    /\ SubSeq(s, i, i + Len(lit) - 1) = lit

\* s has lit ending at position e
EndsAt(s, e, lit) == HasAt(s, e - Len(lit) + 1, lit)

\* every character of s[i..j] is outside the set bad, and i <= j
RunOutside(s, i, j, bad) == i <= j /\ \A k \in i..j : s[k] \notin bad

(***************************************************************************)
(* isIntermediaryProcess                                                   *)
(***************************************************************************)
intermediaryNames ==
    << <<"n","p","m">>, <<"n","p","x">>, <<"y","a","r","n">>, <<"p","n","p","m">>,
       <<"b","u","n">>, <<"n","o","d","e">>, <<"d","e","n","o">>, <<"s","h">>,
       <<"b","a","s","h">>, <<"z","s","h">>, <<"f","i","s","h">>,
       <<"l","a","u","n","c","h","d">>, <<"s","y","s","t","e","m","d">>,
       <<"i","n","i","t">>, <<"e","x","e","c">>, <<"s","p","a","w","n">> >>

intermediaryCommands ==
    << <<"n","p","m"," ","e","x","e","c">>, <<"n","p","x"," ">>, <<"y","a","r","n"," ","e","x","e","c">>, <<"p","n","p","m"," ","e","x","e","c">> >>

\* name.toLowerCase() / cmd.toLowerCase() on a record without the field throws
\* a TypeError; cmd is read only when the name matches no intermediary name.
NameMatches(process) ==
    LET lowerName == ToLowerCase(process.name)
    IN  \E i \in DOMAIN intermediaryNames : Includes(lowerName, intermediaryNames[i])
IsIntermediaryThrows(process) ==
    \/ ~process.hasName
    \/ ~NameMatches(process) /\ ~process.hasCmd

IsIntermediaryProcess(process) ==
    LET lowerCmd == ToLowerCase(process.cmd)
    IN  \/ NameMatches(process)
        \/ \E i \in DOMAIN intermediaryCommands :
              Includes(lowerCmd, intermediaryCommands[i])

(***************************************************************************)
(* extractExecutablePath                                                   *)
(***************************************************************************)
DotApp == <<".","a","p","p">>
DotXpc == <<".","x","p","c">>
DotExe == <<".","e","x","e">>

\* lower, the string case-folded, has .app or .xpc ending at position e
BundleEndsAt(lower, e) == EndsAt(lower, e, DotApp) \/ EndsAt(lower, e, DotXpc)

\* cmd.match(/(.*?\.(?:app|xpc))(?=\/Contents|\/|$)/i)[1]
BundlePathMatch(cmd) ==
    LET lower == ToLowerCase(cmd)
        ends == { e \in 1..Len(cmd) :
                    /\ BundleEndsAt(lower, e)
                    /\ (e = Len(cmd) \/ cmd[e + 1] = "/") }
    IN  IF ends = {} THEN Null ELSE SubSeq(cmd, 1, Min(ends))

\* cmd.match(/([^"\s]+\.(?:app|xpc))/i)[1]
SimpleBundleMatch(cmd) ==
    LET bad == Whitespace \cup {"\""}
        lower == ToLowerCase(cmd)
        EndsFrom(s) == { e \in 1..Len(cmd) :
                           /\ BundleEndsAt(lower, e)
                           /\ RunOutside(cmd, s, e - Len(DotApp), bad) }
        starts == { s \in 1..Len(cmd) : EndsFrom(s) # {} }
    IN  IF starts = {} THEN Null
        ELSE SubSeq(cmd, Min(starts), Max(EndsFrom(Min(starts))))

\* cmd.match(/"([^"]+\.exe)"|'([^']+\.exe)'|([^\s]+\.exe)/i), then
\* exeMatch[1] || exeMatch[2] || exeMatch[3] || null
ExeMatch(cmd) ==
    LET lower == ToLowerCase(cmd)
        ExeEndsAt(e) == EndsAt(lower, e, DotExe)
        \* the alternative in quotes q, starting at s: the end of its group
        Quoted(s, q) == { e \in 1..Len(cmd) :
                            /\ cmd[s] = q
                            /\ ExeEndsAt(e)
                            /\ RunOutside(cmd, s + 1, e - Len(DotExe), {q})
                            /\ e + 1 <= Len(cmd) /\ cmd[e + 1] = q }
        Bare(s) == { e \in 1..Len(cmd) :
                       /\ ExeEndsAt(e)
                       /\ RunOutside(cmd, s, e - Len(DotExe), Whitespace) }
        starts == { s \in 1..Len(cmd) :
                      Quoted(s, "\"") # {} \/ Quoted(s, "'") # {} \/ Bare(s) # {} }
        s0 == Min(starts)
    IN  IF starts = {} THEN Null
        ELSE IF Quoted(s0, "\"") # {} THEN SubSeq(cmd, s0 + 1, Max(Quoted(s0, "\"")))
        ELSE IF Quoted(s0, "'") # {} THEN SubSeq(cmd, s0 + 1, Max(Quoted(s0, "'")))
        ELSE SubSeq(cmd, s0, Max(Bare(s0)))

\* cmd.trim().split(/\s+/)[0]
FirstWord(cmd) ==
    LET nonblank == { i \in 1..Len(cmd) : cmd[i] \notin Whitespace }
        first == Min(nonblank)
        stops == { i \in first..Len(cmd) : cmd[i] \in Whitespace }
    IN  IF nonblank = {} THEN << >>
        ELSE SubSeq(cmd, first, IF stops = {} THEN Len(cmd) ELSE Min(stops) - 1)

GenericExecutablePath(cmd, processName) ==
    IF FirstWord(cmd) # << >> /\ FirstWord(cmd) # processName
    THEN FirstWord(cmd) ELSE Null

ExtractExecutablePath(cmd, processName, os) ==
    IF os = "darwin" /\ BundlePathMatch(cmd) # Null THEN BundlePathMatch(cmd)
    ELSE IF os = "darwin" /\ SimpleBundleMatch(cmd) # Null THEN SimpleBundleMatch(cmd)
    ELSE IF os = "win32" /\ ExeMatch(cmd) # Null THEN ExeMatch(cmd)
    ELSE GenericExecutablePath(cmd, processName)

(***************************************************************************)
(* extractAppName, getOSName                                               *)
(***************************************************************************)
\* path.match(/([^<seps>]+)<suffix>$/)[1], the suffix compared in `folded`
BaseNameBefore(path, folded, suffix, seps) ==
    LET stem == Len(path) - Len(suffix)
        starts == { s \in 1..stem : RunOutside(path, s, stem, seps) }
    IN  IF EndsAt(folded, Len(path), suffix) /\ starts # {}
        THEN SubSeq(path, Min(starts), stem) ELSE Null

ExtractAppName(executablePath, processName, os) ==
    IF os = "darwin" /\ BaseNameBefore(executablePath, executablePath, DotApp, {"/"}) # Null
    THEN BaseNameBefore(executablePath, executablePath, DotApp, {"/"})
    ELSE IF os = "darwin"
            /\ BaseNameBefore(executablePath, executablePath, DotXpc, {"/"}) # Null
    THEN BaseNameBefore(executablePath, executablePath, DotXpc, {"/"})
    ELSE IF os = "win32"
            /\ BaseNameBefore(executablePath, ToLowerCase(executablePath), DotExe,
                              {"/", "\\"}) # Null
    THEN BaseNameBefore(executablePath, ToLowerCase(executablePath), DotExe, {"/", "\\"})
    ELSE processName

GetOSName(os) ==
    CASE os = "darwin" -> "macOS"
      [] os = "win32" -> "Windows"
      [] os = "linux" -> "Linux"
      [] OTHER -> os

(***************************************************************************)
(* extractVersionFromCommand                                               *)
(***************************************************************************)
\* the end of [0-9]+ matched greedily from position i (i - 1 when none)
DigitsEnd(s, i) ==
    LET ends == { e \in i..Len(s) : \A k \in i..e : s[k] \in Digits }
    IN  IF ends = {} THEN i - 1 ELSE Max(ends)

\* the end of [0-9]+\.[0-9]+\.[0-9]+ matched from position i (0 when none)
SemverEnd(s, i) ==
    LET a == DigitsEnd(s, i)
        b == DigitsEnd(s, a + 2)
        c == DigitsEnd(s, b + 2)
    IN  IF /\ a >= i /\ HasAt(s, a + 1, << "." >>)
           /\ b >= a + 2 /\ HasAt(s, b + 1, << "." >>)
           /\ c >= b + 2
        THEN c ELSE 0

\* cmd.match(/<flag>[<seps>]+([0-9]+\.[0-9]+\.[0-9]+)/i)[1]
FlagVersionMatch(cmd, flag, seps) ==
    LET lower == ToLowerCase(cmd)
        SepEnd(i) ==
            LET ends == { e \in i..Len(cmd) : \A k \in i..e : cmd[k] \in seps }
            IN  IF ends = {} THEN i - 1 ELSE Max(ends)
        Start(i) == SepEnd(i + Len(flag)) + 1
        hits == { i \in 1..Len(cmd) :
                    /\ HasAt(lower, i, flag)
                    /\ SepEnd(i + Len(flag)) >= i + Len(flag)
                    /\ SemverEnd(cmd, Start(i)) # 0 }
    IN  IF hits = {} THEN Null
        ELSE SubSeq(cmd, Start(Min(hits)), SemverEnd(cmd, Start(Min(hits))))

\* cmd.match(/([0-9]+\.[0-9]+\.[0-9]+)/i)[1]
BareVersionMatch(cmd) ==
    LET hits == { i \in 1..Len(cmd) : SemverEnd(cmd, i) # 0 }
    IN  IF hits = {} THEN Null ELSE SubSeq(cmd, Min(hits), SemverEnd(cmd, Min(hits)))

ExtractVersionFirstInString(cmd) == BareVersionMatch(cmd)
ExtractVersionFromCommand(cmd) ==
    IF FlagVersionMatch(cmd, <<"-","-","v","e","r","s","i","o","n">>, Whitespace \cup {"="}) # Null
    THEN FlagVersionMatch(cmd, <<"-","-","v","e","r","s","i","o","n">>, Whitespace \cup {"="})
    ELSE IF FlagVersionMatch(cmd, <<"-","v">>, Whitespace \cup {"="}) # Null
    THEN FlagVersionMatch(cmd, <<"-","v">>, Whitespace \cup {"="})
    ELSE IF FlagVersionMatch(cmd, <<"v","e","r","s","i","o","n">>, Whitespace \cup {"=", ":"}) # Null
    THEN FlagVersionMatch(cmd, <<"v","e","r","s","i","o","n">>, Whitespace \cup {"=", ":"})
    ELSE BareVersionMatch(cmd)

(***************************************************************************)
(* identifyClientFromProcess                                               *)
(***************************************************************************)
\* { name: PROXY_NAME, version: PROXY_VERSION }
Identity(name, version) == [status |-> "resolved", name |-> name, version |-> version]
DefaultIdentity == Identity(<< "PROXY_NAME" >>, << "PROXY_VERSION" >>)
Unknown == <<"u","n","k","n","o","w","n">>

\* What VersionExtractor.extractVersion can do for the caller: reject, or
\* resolve to a result with or without a (non-empty) version.
NotCalled == [called |-> FALSE, threw |-> FALSE, version |-> Null]
VersionOutcomes ==
    { [threw |-> TRUE, version |-> Null],
      [threw |-> FALSE, version |-> Null],
      [threw |-> FALSE, version |-> << >>],
      [threw |-> FALSE, version |-> <<"9",".","9",".","9">>] }

\* `${osName}//${appName}`
ClientName(osName, appName) == << osName, "//" >> \o appName

\* The version identifyClientFromProcess settles on, given what
\* extractVersion did.
ChooseVersionCommandFirst(cmd, extraction) ==
    IF ExtractVersionFromCommand(cmd) # Null THEN ExtractVersionFromCommand(cmd)
    ELSE IF ~extraction.threw /\ extraction.version \notin {Null, << >>}
    THEN extraction.version ELSE Unknown
ChooseVersion(cmd, extraction) ==
    IF ~extraction.threw /\ extraction.version \notin {Null, << >>}
    THEN extraction.version
    ELSE IF ExtractVersionFromCommand(cmd) # Null
    THEN ExtractVersionFromCommand(cmd) ELSE Unknown

\* The value identifyClientFromProcess resolves to; `extraction` is consulted
\* only when an executable path was extracted.
IdentifyRethrows(process, os, extraction) ==
    IF ExtractExecutablePath(process.cmd, process.name, os) = Null THEN DefaultIdentity
    ELSE IF extraction.threw THEN [status |-> "rejected"]
    ELSE Identity(ClientName(GetOSName(os),
                     ExtractAppName(ExtractExecutablePath(process.cmd, process.name, os),
                                    process.name, os)),
                  ChooseVersion(process.cmd, extraction))
IdentifyNamesPathless(process, os, extraction) ==
    IF ~process.hasCmd \/ ~process.hasName THEN DefaultIdentity
    ELSE IF ExtractExecutablePath(process.cmd, process.name, os) = Null
    THEN Identity(ClientName(GetOSName(os), process.name), Unknown)
    ELSE Identity(ClientName(GetOSName(os),
                     ExtractAppName(ExtractExecutablePath(process.cmd, process.name, os),
                                    process.name, os)),
                  ChooseVersion(process.cmd, extraction))
IdentifyClientFromProcess(process, os, extraction) ==
    IF ~process.hasCmd \/ ~process.hasName THEN DefaultIdentity
    ELSE IF ExtractExecutablePath(process.cmd, process.name, os) = Null THEN DefaultIdentity
    ELSE Identity(ClientName(GetOSName(os),
                     ExtractAppName(ExtractExecutablePath(process.cmd, process.name, os),
                                    process.name, os)),
                  ChooseVersion(process.cmd, extraction))

CallsExtractor(process, os) ==
    /\ process.hasCmd /\ process.hasName
    /\ ExtractExecutablePath(process.cmd, process.name, os) # Null

(***************************************************************************)
(* The processes of the host                                               *)
(***************************************************************************)
Platforms == {"darwin", "win32", "linux", "freebsd"}
Pids == 1..MaxPid
NoProcess == [status |-> "empty"]
LookupThrows == [status |-> "throws"]
NotLookedUp == [status |-> "unknown"]

Proc(name, cmd) == [hasName |-> TRUE, name |-> name, hasCmd |-> TRUE, cmd |-> cmd]

\* name and command line of the processes that may be running
ProcessKinds ==
    { Proc(<<"n","p","m">>, <<"n","p","m"," ","e","x","e","c"," ","a","i","-","j","o","b","-","s","e","a","r","c","h","-","m","c","p">>),
      Proc(<<"N","o","d","e">>, <<"n","o","d","e"," ","/","u","s","r","/","l","i","b","/","c","l","i",".","j","s">>),
      Proc(<<"r","u","n","n","e","r">>, <<"r","u","n","n","e","r"," ","n","p","x"," ","m","c","p">>),
      Proc(<<"C","l","a","u","d","e">>, <<"/","A","p","p","l","i","c","a","t","i","o","n","s","/","C","l","a","u","d","e",".","a","p","p","/","C","o","n","t","e","n","t","s","/","M","a","c","O","S","/","C","l","a","u","d","e">>),
      Proc(<<"C","u","r","s","o","r",".","e","x","e">>, <<"\"","C",":","\\","A","p","p","s","\\","C","u","r","s","o","r",".","e","x","e","\""," ","-","v"," ","3",".","1",".","4">>),
      Proc(<<"c","u","r","s","o","r">>, <<"/","o","p","t","/","c","u","r","s","o","r","/","c","u","r","s","o","r"," ","-","-","v","e","r","s","i","o","n","=","2",".","4",".","6">>),
      Proc(<<"c","o","d","e">>, <<"c","o","d","e">>),
      [hasName |-> TRUE, name |-> <<"Z","e","d">>, hasCmd |-> FALSE, cmd |-> << >>] }

KindOf(process) ==
    [hasName |-> process.hasName, name |-> process.name,
     hasCmd |-> process.hasCmd, cmd |-> process.cmd]

\* The helpers above, tabulated once for the processes of the host.
Classified ==
    [k \in ProcessKinds |->
        IF IsIntermediaryThrows(k) THEN "throws"
        ELSE IF IsIntermediaryProcess(k) THEN "intermediary" ELSE "client"]
Identification ==
    [k \in ProcessKinds, os \in Platforms, x \in VersionOutcomes |->
        IdentifyClientFromProcess(k, os, x)]
CommandVersion ==
    [k \in ProcessKinds |-> IF k.hasCmd THEN ExtractVersionFromCommand(k.cmd) ELSE Null]
ExtractorCalled ==
    [k \in ProcessKinds, os \in Platforms |-> CallsExtractor(k, os)]
ExecutablePath ==
    [k \in ProcessKinds, os \in Platforms |->
        IF k.hasCmd /\ k.hasName THEN ExtractExecutablePath(k.cmd, k.name, os) ELSE Null]
AppName ==
    [k \in ProcessKinds, os \in Platforms |->
        IF CallsExtractor(k, os)
        THEN ExtractAppName(ExtractExecutablePath(k.cmd, k.name, os), k.name, os)
        ELSE Null]

\* the parent a process with this pid may have: none, the next pid, or the
\* first pid again (a cycle)
ParentChoices(pid) == {0, 1} \cup ({pid + 1} \cap Pids)

\* what findProcess("pid", pid) can resolve to when first asked about pid
LookupResults(pid) ==
    { [status |-> "found", pid |-> pid, ppid |-> pp, hasName |-> k.hasName, name |-> k.name,
       hasCmd |-> k.hasCmd, cmd |-> k.cmd] : k \in ProcessKinds, pp \in ParentChoices(pid) }
    \cup {NoProcess}

(***************************************************************************)
(* extractClientInfoFromParent, findRealClient                             *)
(***************************************************************************)
MAX_DEPTH == 5

DetectInit ==
    /\ platform \in Platforms
    /\ parentPid \in {0, 1}
    /\ table = [p \in Pids |-> NotLookedUp]
    /\ pc = "extractClientInfoFromParent"
    /\ currentPid = 0
    /\ depth = 0
    /\ lookups = << >>
    /\ identified = << >>
    /\ extractorCalls = 0
    /\ versionResult = NotCalled
    /\ clientInfo = [status |-> "pending"]

Resolve(info) ==
    /\ clientInfo' = info
    /\ pc' = "done"

\* extractClientInfoFromParent up to its call of findRealClient
extractClientInfoFromParent ==
    /\ pc = "extractClientInfoFromParent"
    /\ IF parentPid = 0
       THEN /\ Resolve(DefaultIdentity)
            /\ UNCHANGED <<currentPid, depth>>
       ELSE /\ pc' = "findRealClient"
            /\ currentPid' = parentPid
            /\ depth' = 0
            /\ UNCHANGED clientInfo
    /\ UNCHANGED <<platform, parentPid, table, lookups, identified, extractorCalls,
                   versionResult, proxyVars, startVars, extractVars, commandVars, listenerVars>>

\* findRealClient(currentPid, depth) stopping at the depth bound
DepthReachedOffByOne(d) == d > MAX_DEPTH
DepthReachedEarly(d) == d >= MAX_DEPTH - 1
DepthReached(d) == d >= MAX_DEPTH

findRealClientMaxDepth ==
    /\ pc = "findRealClient"
    /\ DepthReached(depth)
    /\ Resolve(DefaultIdentity)
    /\ UNCHANGED <<platform, parentPid, table, currentPid, depth, lookups, identified,
                   extractorCalls, versionResult, proxyVars, startVars, extractVars, commandVars, listenerVars>>

\* What findRealClient does with the answer of findProcess: "default" (resolve
\* to the default identity), "parent" (recurse into ppid) or "identify".
AfterLookupIdentifiesOrphan(found) ==
    IF found.status # "found" THEN "default"
    ELSE IF Classified[KindOf(found)] = "throws" THEN "default"
    ELSE IF Classified[KindOf(found)] = "intermediary" /\ found.ppid # 0 THEN "parent"
    ELSE "identify"
AfterLookup(found) ==
    IF found.status # "found" THEN "default"
    ELSE IF Classified[KindOf(found)] = "throws" THEN "default"
    ELSE IF Classified[KindOf(found)] = "intermediary"
    THEN (IF found.ppid = 0 THEN "default" ELSE "parent")
    ELSE "identify"

\* findRealClient(currentPid, depth): one process lookup and what follows it
\* up to the recursive call or the call of identifyClientFromProcess
findRealClient ==
    /\ pc = "findRealClient"
    /\ ~DepthReached(depth)
    /\ \E found \in (IF table[currentPid] = NotLookedUp
                     THEN LookupResults(currentPid) ELSE {table[currentPid]})
                        \cup {LookupThrows} :
          /\ lookups' = Append(lookups, [pid |-> currentPid, depth |-> depth,
                                         found |-> found])
          /\ table' = IF found = LookupThrows THEN table
                      ELSE [table EXCEPT ![currentPid] = found]
          /\ CASE AfterLookup(found) = "default" ->
                    /\ Resolve(DefaultIdentity)
                    /\ UNCHANGED <<currentPid, depth, identified>>
               [] AfterLookup(found) = "parent" ->
                    /\ currentPid' = found.ppid
                    /\ depth' = depth + 1
                    /\ UNCHANGED <<pc, clientInfo, identified>>
               [] AfterLookup(found) = "identify" ->
                    /\ pc' = "identifyClientFromProcess"
                    /\ identified' = Append(identified, found)
                    /\ UNCHANGED <<currentPid, depth, clientInfo>>
    /\ UNCHANGED <<platform, parentPid, extractorCalls, versionResult, proxyVars, startVars, extractVars, commandVars, listenerVars>>

\* identifyClientFromProcess(currentProcess), including its awaited call of
\* VersionExtractor.extractVersion
identifyClientFromProcess ==
    /\ pc = "identifyClientFromProcess"
    /\ LET process == identified[Len(identified)]
       IN  IF ExtractorCalled[KindOf(process), platform]
           THEN \E extraction \in VersionOutcomes :
                   /\ versionResult' = [called |-> TRUE, threw |-> extraction.threw,
                                         version |-> extraction.version]
                   /\ extractorCalls' = extractorCalls + 1
                   /\ Resolve(Identification[KindOf(process), platform, extraction])
           ELSE /\ Resolve(Identification[KindOf(process), platform,
                                          [threw |-> FALSE, version |-> Null]])
                /\ UNCHANGED <<versionResult, extractorCalls>>
    /\ UNCHANGED <<platform, parentPid, table, currentPid, depth, lookups, identified,
                   proxyVars, startVars, extractVars, commandVars, listenerVars>>

ProxyIdle ==
    /\ serverCapabilities = NoCapabilities
    /\ getClient = "undefined"
    /\ wired = FALSE
    /\ requestHandlers = << >>
    /\ serverNotificationHandlers = << >>
    /\ clientNotificationHandlers = [c \in Clients |-> << >>]
    /\ invocations = << >>
    /\ calls = << >>

DetectIdle ==
    /\ platform = "linux"
    /\ parentPid = 0
    /\ table = [p \in Pids |-> NotLookedUp]
    /\ pc = "idle"
    /\ currentPid = 0
    /\ depth = 0
    /\ lookups = << >>
    /\ identified = << >>
    /\ extractorCalls = 0
    /\ versionResult = NotCalled
    /\ clientInfo = [status |-> "pending"]

(***************************************************************************)
(*               STARTUP: main, startProxy, startStdioServer               *)
(***************************************************************************)
\* "https://www.foundrole.com/mcp"
DefaultTargetUrl == <<"h","t","t","p","s",":","/","/","w","w","w",".","f","o","u","n","d","r","o","l","e",".","c","o","m","/","m","c","p">>
\* process.env.MCP_TARGET_URL: unset, or a URL with blanks around it
EnvValues == { Null, <<" ","h","t","t","p",":","/","/","d","e","v",":","3","0","0","0","/","m","c","p"," ">> }

\* getProxyConfig()
GetProxyConfigUntrimmed(envTargetUrl) ==
    LET hasCustomUrl == envTargetUrl # Null /\ envTargetUrl # << >>
    IN  [status |-> "returned",
         debugMode |-> hasCustomUrl,
         targetUrl |-> IF hasCustomUrl THEN envTargetUrl ELSE DefaultTargetUrl]
GetProxyConfig(envTargetUrl) ==
    LET hasCustomUrl ==
            /\ envTargetUrl # Null
            /\ \E i \in 1..Len(envTargetUrl) : envTargetUrl[i] \notin Whitespace
    IN  [status |-> "returned",
         debugMode |-> hasCustomUrl,
         targetUrl |-> IF hasCustomUrl THEN envTargetUrl ELSE DefaultTargetUrl]

\* errors a collaborator (URL parsing, the transports, the SDK) may fail with
Errors == {"ECONNREFUSED", "ETIMEDOUT"}
Rejected(e) == [status |-> "rejected", error |-> e]
Resolved == [status |-> "resolved"]
Pending == [status |-> "pending"]
NotStarted == [status |-> "none"]

\* what the upstream server reports about itself on connect
ServerVersions == { [name |-> "foundrole", version |-> "1.0.0"],
                    [name |-> "staging", version |-> "2.0.0"] }
UpstreamCapabilities ==
    { NoCapabilities, [NoCapabilities EXCEPT !.logging = TRUE],
      [NoCapabilities EXCEPT !.tools = TRUE] }
Signals == {"SIGINT", "SIGTERM"}

\* the hosts startup is explored on: npm started by Claude.app, the client
\* itself as parent, a parent whose command line is just its name, and an
\* intermediary that is its own parent
KindNamed(name) == CHOOSE k \in ProcessKinds : k.name = name
Found(pid, ppid, k) ==
    [status |-> "found", pid |-> pid, ppid |-> ppid, hasName |-> k.hasName,
     name |-> k.name, hasCmd |-> k.hasCmd, cmd |-> k.cmd]
StartupHosts ==
    { [p \in Pids |->
          CASE p = 1 -> Found(1, 2, KindNamed(<<"n","p","m">>))
            [] p = 2 -> Found(2, 0, KindNamed(<<"C","l","a","u","d","e">>))
            [] OTHER -> NoProcess],
      [p \in Pids |->
          CASE p = 1 -> Found(1, 0, KindNamed(<<"c","u","r","s","o","r">>))
            [] OTHER -> NoProcess],
      [p \in Pids |->
          CASE p = 1 -> Found(1, 0, KindNamed(<<"c","o","d","e">>))
            [] OTHER -> NoProcess],
      [p \in Pids |->
          CASE p = 1 -> Found(1, 1, KindNamed(<<"n","p","m">>))
            [] OTHER -> NoProcess] }
StartupPlatforms == {"darwin"}

StartIdle ==
    /\ startPc = "idle"
    /\ env = Null
    /\ config = NotStarted
    /\ steps = << >>
    /\ upstream = NotStarted
    /\ downstream = NotStarted
    /\ startResult = NotStarted
    /\ proxyResult = NotStarted
    /\ signalHandlers = {}
    /\ logs = << >>
    /\ exits = << >>

StartInit ==
    /\ startPc = "main"
    /\ env \in EnvValues
    /\ config = NotStarted
    /\ steps = << >>
    /\ upstream = NotStarted
    /\ downstream = NotStarted
    /\ startResult = NotStarted
    /\ proxyResult = NotStarted
    /\ signalHandlers = {}
    /\ logs = << >>
    /\ exits = << >>
    \* the resolver has not been called yet
    /\ platform \in StartupPlatforms
    /\ parentPid \in {0, 1}
    /\ table \in StartupHosts
    /\ pc = "idle"
    /\ currentPid = 0
    /\ depth = 0
    /\ lookups = << >>
    /\ identified = << >>
    /\ extractorCalls = 0
    /\ versionResult = NotCalled
    /\ clientInfo = [status |-> "pending"]

\* main() up to the first await: getProxyConfig(), then startProxy(config)
\* up to its call of startStdioServer, which calls extractClientInfoFromParent
main ==
    /\ startPc = "main"
    /\ \/ \E e \in Errors :
             /\ config' = [status |-> "threw", error |-> e]
             /\ startPc' = "main:catch"
             /\ UNCHANGED <<logs, steps, startResult, proxyResult, pc>>
       \/ /\ config' = GetProxyConfig(env)
          /\ logs' = logs \o << "Starting", "Target URL", "Debug mode" >>
          /\ proxyResult' = Pending
          /\ startResult' = Pending
          /\ steps' = Append(steps, "extractClientInfoFromParent")
          /\ pc' = "extractClientInfoFromParent"
          /\ startPc' = "startStdioServer"
    /\ UNCHANGED <<env, upstream, downstream, signalHandlers, exits,
                   platform, parentPid, table, currentPid, depth, lookups, identified,
                   extractorCalls, versionResult, clientInfo, proxyVars, extractVars, commandVars, listenerVars>>

\* new Client(originalClientInfo, { capabilities: {} })
OriginalClientInfoOwn(info) == [name |-> DefaultIdentity.name, version |-> DefaultIdentity.version]
OriginalClientInfo(info) == [name |-> info.name, version |-> info.version]

\* startStdioServer after extractClientInfoFromParent resolved:
\* createHttpClient()
createHttpClient ==
    /\ startPc = "startStdioServer"
    /\ pc = "done"
    /\ steps' = Append(steps, "client.connect")
    /\ LET originalClientInfo == OriginalClientInfo(clientInfo)
       IN  \/ \* new URL(url) throws: only a URL taken from the environment can be malformed
              /\ config.debugMode
              /\ \E e \in Errors : startResult' = Rejected(e)
              /\ startPc' = "startProxy:catch"
              /\ UNCHANGED upstream
           \/ \* client.connect(transport) rejects
              /\ \E e \in Errors :
                    /\ startResult' = Rejected(e)
                    /\ upstream' = [status |-> "failed", clientInfo |-> originalClientInfo,
                                    capabilities |-> {}, error |-> e]
              /\ startPc' = "startProxy:catch"
           \/ \* client.connect(transport) resolves
              /\ \E v \in ServerVersions, c \in UpstreamCapabilities :
                    upstream' = [status |-> "connected", clientInfo |-> originalClientInfo,
                                 capabilities |-> {}, serverVersion |-> v,
                                 serverCapabilities |-> c]
              /\ startPc' = "connected"
              /\ UNCHANGED startResult
    /\ UNCHANGED <<env, config, downstream, proxyResult, signalHandlers, logs, exits,
                   detectVars, proxyVars, extractVars, commandVars, listenerVars>>

\* startStdioServer after the upstream connected: read its version and
\* capabilities, create and connect the downstream Server, call proxyServer
ServerInfoOwn(up) == [name |-> "PROXY_NAME", version |-> "PROXY_VERSION"]
ServerInfoRead(up) == up.serverVersion
CapabilitiesRead(up) == up.serverCapabilities
stdioServerConnect ==
    /\ startPc = "connected"
    /\ LET serverVersion == ServerInfoRead(upstream)
           capabilities == CapabilitiesRead(upstream)
           read == steps \o << "getServerVersion", "getServerCapabilities",
                               "stdioServer.connect" >>
       IN  \/ \* stdioServer.connect(stdioTransport) rejects
              /\ \E e \in Errors :
                    /\ startResult' = Rejected(e)
                    /\ downstream' = [status |-> "failed", info |-> serverVersion,
                                      capabilities |-> capabilities, error |-> e]
              /\ steps' = read
              /\ startPc' = "startProxy:catch"
              /\ UNCHANGED serverCapabilities
           \/ /\ downstream' = [status |-> "connected", info |-> serverVersion,
                                capabilities |-> capabilities]
              /\ steps' = Append(read, "proxyServer")
              /\ serverCapabilities' = capabilities
              /\ startPc' = "proxyServer"
              /\ UNCHANGED startResult
    /\ UNCHANGED <<env, config, upstream, proxyResult, signalHandlers, logs, exits,
                   getClient, wired, requestHandlers, serverNotificationHandlers,
                   clientNotificationHandlers, invocations, calls,
                   detectVars, extractVars, commandVars, listenerVars>>

\* proxyServer({client: httpClient, server: stdioServer, serverCapabilities})
installProxy ==
    /\ startPc = "proxyServer"
    /\ proxyServer

\* a registration of proxyServer throws
proxyServerRejects ==
    /\ startPc = "proxyServer"
    /\ ~wired
    /\ \E e \in Errors : startResult' = Rejected(e)
    /\ startPc' = "startProxy:catch"
    /\ UNCHANGED <<env, config, steps, upstream, downstream, proxyResult, signalHandlers,
                   logs, exits, detectVars, proxyVars, extractVars, commandVars, listenerVars>>

\* startStdioServer returns; startProxy logs, registers the signal listeners
\* and returns the cleanup function, which main returns to cli.ts
startProxy ==
    /\ startPc = "proxyServer"
    /\ wired
    /\ startResult' = Resolved
    /\ logs' = logs \o << "started successfully", "Ready to accept", "Original client info" >>
    /\ signalHandlers' = signalHandlers \cup Signals
    /\ proxyResult' = Resolved
    /\ startPc' = "running"
    /\ UNCHANGED <<env, config, steps, upstream, downstream, exits,
                   detectVars, proxyVars, extractVars, commandVars, listenerVars>>

\* the catch block of startProxy
RethrownGeneric(error) == "Error: startup failed"
Rethrown(error) == error
startProxyCatch ==
    /\ startPc = "startProxy:catch"
    /\ logs' = logs \o << "Failed to connect", "Please check", "For debugging" >>
    /\ proxyResult' = Rejected(Rethrown(startResult.error))
    /\ startPc' = "main:catch"
    /\ UNCHANGED <<env, config, steps, upstream, downstream, startResult, signalHandlers,
                   exits, detectVars, proxyVars, extractVars, commandVars, listenerVars>>

\* the catch block of main
mainCatch ==
    /\ startPc = "main:catch"
    /\ logs' = Append(logs, "Unexpected error")
    /\ exits' = Append(exits, 1)
    /\ startPc' = "exited"
    /\ UNCHANGED <<env, config, steps, upstream, downstream, startResult, proxyResult,
                   signalHandlers, detectVars, proxyVars, extractVars, commandVars, listenerVars>>

\* sigintHandler / sigtermHandler: process.exit(0) is called at once, whatever
\* calls are in flight
HandlerExitsWhenDrained(inflight) ==
    \A k \in 1..Len(inflight) : inflight[k].outcome.status # "pending"
HandlerExits(inflight) == TRUE
SignalReceived ==
    /\ exits = << >>
    /\ HandlerExits(calls)
    /\ \E sig \in signalHandlers :
          /\ logs' = Append(logs, "Shutting down")
          /\ exits' = Append(exits, 0)
          /\ startPc' = "exited"
    /\ UNCHANGED <<env, config, steps, upstream, downstream, startResult, proxyResult,
                   signalHandlers, detectVars, proxyVars, extractVars, commandVars, listenerVars>>

\* process.stdin has the transport's "data" listener and the process lives
DownstreamListening == downstream.status = "connected" /\ exits = << >>

\* A continuation of main, startProxy or startStdioServer is queued as a job:
\* the promise it awaits is settled. Jobs run to the end of the queue before
\* the event loop reads stdin, a signal or a socket again. The promise of
\* stdioServer.connect settles without waiting for input (the transport only
\* attaches its listeners to stdin), so the continuation that calls
\* proxyServer is such a job.
ContinuationReadyButConnect ==
    startPc \in {"main", "connected", "startProxy:catch", "main:catch"}
ContinuationReady ==
    startPc \in {"main", "connected", "proxyServer", "startProxy:catch", "main:catch"}

\* the event loop can hand a message of the downstream peer to the server
CanDeliver == DownstreamListening /\ ~ContinuationReady

\* The living process forwards requests.
ForwardRequest ==
    /\ CanDeliver
    /\ DownstreamRequest
ForwardSettle ==
    /\ startPc = "running"
    /\ Settle

(***************************************************************************)
(*                 VersionExtractor (version-extractor.ts)                 *)
(***************************************************************************)
\* A VersionExtractionResult; Null stands for an absent version or error. An
\* error message is a sequence of its parts.
Result(source, version, error) ==
    [status |-> "returned", source |-> source, version |-> version, error |-> error]

\* values a collaborator may throw: Errors with and without a message, and a
\* value that is no Error
Thrown == { [isError |-> TRUE, message |-> << "ENOENT" >>],
            [isError |-> TRUE, message |-> << >>],
            [isError |-> FALSE, string |-> << "boom" >>] }
\* error instanceof Error ? error.message : String(error)
ErrorText(e) == IF e.isError THEN e.message ELSE e.string
\* a catch block that lets the error escape
CaughtRethrows(e) == [status |-> "threw", error |-> ErrorText(e)]
\* catch (error) { return { error: ..., source: "fallback" } }
Caught(e) == Result("fallback", Null, ErrorText(e))

\* the end of \d+\.\d+(?:\.\d+)? matched from position i (0 when none)
ShortVersionEnd(s, i) ==
    LET a == DigitsEnd(s, i)
        b == DigitsEnd(s, a + 2)
        c == DigitsEnd(s, b + 2)
    IN  IF a >= i /\ HasAt(s, a + 1, << "." >>) /\ b >= a + 2
        THEN (IF HasAt(s, b + 1, << "." >>) /\ c >= b + 2 THEN c ELSE b)
        ELSE 0
\* s.match(/(\d+\.\d+(?:\.\d+)?)/)[1]
ShortVersionMatch(s) ==
    LET hits == { i \in 1..Len(s) : ShortVersionEnd(s, i) # 0 }
    IN  IF hits = {} THEN Null ELSE SubSeq(s, Min(hits), ShortVersionEnd(s, Min(hits)))

\* path.resolve, path.dirname and path.join of POSIX paths without "." or
\* ".." segments
Cwd == <<"/","h","o","m","e","/","u","s","e","r">>
PathResolve(p) == IF p # << >> /\ p[1] = "/" THEN p ELSE Cwd \o << "/" >> \o p
Dirname(p) ==
    LET slashes == { i \in 1..Len(p) : p[i] = "/" }
    IN  IF slashes = {} THEN << "." >>
        ELSE IF Max(slashes) = 1 THEN << "/" >>
        ELSE SubSeq(p, 1, Max(slashes) - 1)
EndsWith(p, suffix) == EndsAt(p, Len(p), suffix)

\* findMacOSAppBundle(executablePath)
RECURSIVE WalkUp(_)
WalkUp(currentPath) ==
    IF currentPath = Dirname(currentPath) THEN Null
    ELSE IF EndsWith(currentPath, DotApp) \/ EndsWith(currentPath, DotXpc) THEN currentPath
    ELSE WalkUp(Dirname(currentPath))
FindMacOSAppBundle(executablePath) == WalkUp(PathResolve(executablePath))
\* join(appBundlePath, "Contents", "Info.plist")
PlistPath(appBundlePath) == appBundlePath \o <<"/","C","o","n","t","e","n","t","s","/","I","n","f","o",".","p","l","i","s","t">>

\* the arguments extractVersion is explored with
ExecutablePaths ==
    { <<"/","A","p","p","l","i","c","a","t","i","o","n","s","/","C","l","a","u","d","e",".","a","p","p","/","C","o","n","t","e","n","t","s","/","M","a","c","O","S","/","C","l","a","u","d","e">>,
      <<"/","u","s","r","/","b","i","n","/","c","u","r","s","o","r">>,
      <<"H","e","l","p","e","r",".","x","p","c">> }
ProcessNames == { Null, <<"c","u","r","s","o","r">>, <<"c","o","d","e","-","1",".","8","5">> }

\* findMacOSAppBundle, tabulated once for the paths above
AppBundle == [p \in ExecutablePaths |-> FindMacOSAppBundle(p)]

\* values of a parsed Info.plist: absent, or a string or a number
Absent == [type |-> "undefined", text |-> << >>]
PlistString(text) == [type |-> "string", text |-> text]
PlistNumber(text) == [type |-> "number", text |-> text]
Truthy(v) ==
    /\ v.type # "undefined"
    /\ ~(v.type = "string" /\ v.text = << >>)
    /\ ~(v.type = "number" /\ v.text = << "0" >>)
PlistObjects ==
    [CFBundleShortVersionString : {Absent, PlistString(<< >>), PlistString(<<"1",".","2",".","3">>)},
     CFBundleVersion : {Absent, PlistNumber(<<"4","5","6">>)},
     CFBundleVersionString : {Absent, PlistString(<<"1",".","2",".","3","-","l","o","n","g">>)}]
\* plistObj.CFBundleShortVersionString || plistObj.CFBundleVersion ||
\* plistObj.CFBundleVersionString
PlistVersionBuildFirst(plistObj) ==
    IF Truthy(plistObj.CFBundleVersion) THEN plistObj.CFBundleVersion
    ELSE IF Truthy(plistObj.CFBundleShortVersionString)
    THEN plistObj.CFBundleShortVersionString
    ELSE plistObj.CFBundleVersionString
PlistVersion(plistObj) ==
    IF Truthy(plistObj.CFBundleShortVersionString) THEN plistObj.CFBundleShortVersionString
    ELSE IF Truthy(plistObj.CFBundleVersion) THEN plistObj.CFBundleVersion
    ELSE plistObj.CFBundleVersionString
\* the result extractFromPlist builds from the parsed plist
PlistResult(plistObj) ==
    IF Truthy(PlistVersion(plistObj))
    THEN Result("plist", PlistVersion(plistObj).text, Null)
    ELSE Result("fallback", Null, << "No version found in Info.plist" >>)

\* what win-version-info answers: nothing, or an object with the two fields
\* absent, empty or set
NoVersionInfo == [defined |-> FALSE, FileVersion |-> Null, ProductVersion |-> Null]
VersionInfos ==
    { NoVersionInfo } \cup
    [defined : {TRUE},
     FileVersion : {Null, << >>, <<"3",".","1",".","4",".","0">>},
     ProductVersion : {Null, <<"3",".","1">>}]
WindowsResultProductFirst(versionInfo) ==
    IF versionInfo.defined /\ versionInfo.ProductVersion \notin {Null, << >>}
    THEN Result("executable", versionInfo.ProductVersion, Null)
    ELSE IF versionInfo.defined /\ versionInfo.FileVersion \notin {Null, << >>}
    THEN Result("executable", versionInfo.FileVersion, Null)
    ELSE Result("fallback", Null, << "No version information found in PE file" >>)
WindowsResult(versionInfo) ==
    IF versionInfo.defined /\ versionInfo.FileVersion \notin {Null, << >>}
    THEN Result("executable", versionInfo.FileVersion, Null)
    ELSE IF versionInfo.defined /\ versionInfo.ProductVersion \notin {Null, << >>}
    THEN Result("executable", versionInfo.ProductVersion, Null)
    ELSE Result("fallback", Null, << "No version information found in PE file" >>)

\* what elfy.parse answers: the sections of the file, if any; data is Null for
\* a section without data
Section(name, data) == [name |-> name, data |-> data]
ElfFiles ==
    { [hasSections |-> FALSE, sections |-> << >>],
      [hasSections |-> TRUE, sections |-> << >>],
      [hasSections |-> TRUE,
       sections |-> << Section(".text", <<"9",".","9",".","9">>),
                       Section(".rodata", <<"h","e","l","l","o">>),
                       Section(".comment", <<"G","C","C"," ","1","2",".","2",".","0">>) >>],
      [hasSections |-> TRUE,
       sections |-> << Section(".comment", Null),
                       Section(".rodata", <<"v","1",".","2"," ","o","r"," ","3",".","4",".","5">>) >>] }
LinuxResult(elf) ==
    LET hits == { i \in 1..Len(elf.sections) :
                    /\ elf.sections[i].name \in {".rodata", ".comment"}
                    /\ elf.sections[i].data \notin {Null, << >>}
                    /\ ShortVersionMatch(elf.sections[i].data) # Null }
    IN  IF elf.hasSections /\ hits # {}
        THEN Result("executable", ShortVersionMatch(elf.sections[Min(hits)].data), Null)
        ELSE Result("fallback", Null, << "No version information found in ELF file" >>)

Import(module) == [op |-> "import", what |-> << module >>]
ReadFile(path) == [op |-> "readFileSync", what |-> path]
Threw(e) == [op |-> "throw", what |-> ErrorText(e)]

ExtractIdle ==
    /\ extractPc = "idle"
    /\ extractArgs = [executablePath |-> << >>, processName |-> Null]
    /\ fileReads = << >>
    /\ extracted = [status |-> "pending"]
    /\ answered = [kind |-> "none"]

ExtractInit ==
    /\ extractPc = "extractVersion"
    /\ extractArgs \in [executablePath : ExecutablePaths, processName : ProcessNames]
    /\ fileReads = << >>
    /\ extracted = [status |-> "pending"]
    /\ answered = [kind |-> "none"]
    \* process.platform; the resolver is not running
    /\ platform \in Platforms
    /\ parentPid = 0
    /\ table = [p \in Pids |-> NotLookedUp]
    /\ pc = "idle"
    /\ currentPid = 0
    /\ depth = 0
    /\ lookups = << >>
    /\ identified = << >>
    /\ extractorCalls = 0
    /\ versionResult = NotCalled
    /\ clientInfo = [status |-> "pending"]

Return(result) ==
    /\ extracted' = result
    /\ extractPc' = "done"

\* extractVersion(executablePath, processName): the switch on the platform
extractVersion ==
    /\ extractPc = "extractVersion"
    /\ CASE platform = "darwin" ->
              extractPc' = "extractMacOSVersion" /\ UNCHANGED extracted
         [] platform = "win32" ->
              extractPc' = "extractWindowsVersion" /\ UNCHANGED extracted
         [] platform = "linux" ->
              extractPc' = "extractLinuxVersion" /\ UNCHANGED extracted
         [] OTHER ->
              Return(Result("fallback", Null, << "Unsupported platform: ", platform >>))
    /\ UNCHANGED <<extractArgs, fileReads, answered, detectVars, proxyVars, startVars, commandVars, listenerVars>>

\* the fallback of extractMacOSVersion: a version in the process name
ProcessNameResultWithWarning(processName) ==
    IF processName \notin {Null, << >>} /\ ShortVersionMatch(processName) # Null
    THEN Result("fallback", ShortVersionMatch(processName),
                << "Could not find app bundle or extract version" >>)
    ELSE Result("fallback", Null, << "Could not find app bundle or extract version" >>)
ProcessNameResult(processName) ==
    IF processName \notin {Null, << >>} /\ ShortVersionMatch(processName) # Null
    THEN Result("fallback", ShortVersionMatch(processName), Null)
    ELSE Result("fallback", Null, << "Could not find app bundle or extract version" >>)

\* extractMacOSVersion(executablePath, processName)
extractMacOSVersion ==
    /\ extractPc = "extractMacOSVersion"
    /\ IF AppBundle[extractArgs.executablePath] # Null
       THEN extractPc' = "extractFromPlist" /\ UNCHANGED extracted
       ELSE Return(ProcessNameResult(extractArgs.processName))
    /\ UNCHANGED <<extractArgs, fileReads, answered, detectVars, proxyVars, startVars, commandVars, listenerVars>>

\* extractFromPlist(appBundlePath)
extractFromPlist ==
    /\ extractPc = "extractFromPlist"
    /\ LET plistPath == PlistPath(AppBundle[extractArgs.executablePath])
       IN  \/ \* import("plist") rejects
              /\ \E e \in Thrown :
                    /\ fileReads' = fileReads \o << Import("plist"), Threw(e) >>
                    /\ Return(Caught(e))
                    /\ UNCHANGED answered
           \/ \* readFileSync or the parser throws
              /\ \E e \in Thrown :
                    /\ fileReads' = fileReads \o << Import("plist"), ReadFile(plistPath), Threw(e) >>
                    /\ Return(Caught(e))
                    /\ UNCHANGED answered
           \/ /\ fileReads' = fileReads \o << Import("plist"), ReadFile(plistPath) >>
              /\ \E plistObj \in PlistObjects :
                    /\ answered' = [kind |-> "plist", value |-> plistObj]
                    /\ Return(PlistResult(plistObj))
    /\ UNCHANGED <<extractArgs, detectVars, proxyVars, startVars, commandVars, listenerVars>>

\* extractWindowsVersion(executablePath)
extractWindowsVersion ==
    /\ extractPc = "extractWindowsVersion"
    /\ \/ \* import("win-version-info") rejects
          /\ \E e \in Thrown :
                /\ fileReads' = fileReads \o << Import("win-version-info"), Threw(e) >>
                /\ Return(Caught(e))
                /\ UNCHANGED answered
       \/ \* reading the PE file throws
          /\ \E e \in Thrown :
                /\ fileReads' = fileReads \o << Import("win-version-info"), ReadFile(extractArgs.executablePath), Threw(e) >>
                /\ Return(Caught(e))
                /\ UNCHANGED answered
       \/ /\ fileReads' = fileReads \o << Import("win-version-info"),
                                          ReadFile(extractArgs.executablePath) >>
          /\ \E versionInfo \in VersionInfos :
                /\ answered' = [kind |-> "versionInfo", value |-> versionInfo]
                /\ Return(WindowsResult(versionInfo))
    /\ UNCHANGED <<extractArgs, detectVars, proxyVars, startVars, commandVars, listenerVars>>

\* extractLinuxVersion(executablePath)
extractLinuxVersion ==
    /\ extractPc = "extractLinuxVersion"
    /\ \/ \* import("elfy") rejects
          /\ \E e \in Thrown :
                /\ fileReads' = fileReads \o << Import("elfy"), Threw(e) >>
                /\ Return(Caught(e))
                /\ UNCHANGED answered
       \/ \* readFileSync or elfy.parse throws
          /\ \E e \in Thrown :
                /\ fileReads' = fileReads \o << Import("elfy"), ReadFile(extractArgs.executablePath), Threw(e) >>
                /\ Return(Caught(e))
                /\ UNCHANGED answered
       \/ /\ fileReads' = fileReads \o << Import("elfy"),
                                          ReadFile(extractArgs.executablePath) >>
          /\ \E elf \in ElfFiles :
                /\ answered' = [kind |-> "elf", value |-> elf]
                /\ Return(LinuxResult(elf))
    /\ UNCHANGED <<extractArgs, detectVars, proxyVars, startVars, commandVars, listenerVars>>

(***************************************************************************)
(*                     getProxyConfig ON ITS OWN                           *)
(***************************************************************************)
\* the values process.env.MCP_TARGET_URL is tried with: unset, or any string
\* of at most MaxEnvLen characters, blanks included
MaxEnvLen == 3
EnvChars == {" ", "\t", "h", "/"}
EnvStrings ==
    {Null} \cup UNION { [1..n -> EnvChars] : n \in 0..MaxEnvLen }

ConfigInit ==
    /\ startPc = "getProxyConfig"
    /\ env \in EnvStrings
    /\ config = NotStarted
    /\ steps = << >>
    /\ upstream = NotStarted
    /\ downstream = NotStarted
    /\ startResult = NotStarted
    /\ proxyResult = NotStarted
    /\ signalHandlers = {}
    /\ logs = << >>
    /\ exits = << >>

\* one call of getProxyConfig()
getProxyConfig ==
    /\ startPc = "getProxyConfig"
    /\ config' = GetProxyConfig(env)
    /\ startPc' = "getProxyConfig:returned"
    /\ UNCHANGED <<env, steps, upstream, downstream, startResult, proxyResult,
                   signalHandlers, logs, exits, proxyVars, detectVars, extractVars, commandVars, listenerVars>>

(***************************************************************************)
(*                extractVersionFromCommand ON ITS OWN                     *)
(***************************************************************************)
\* the command lines extractVersionFromCommand is tried with: at most MaxTokens
\* of these pieces, one after the other
MaxTokens == 3
CommandTokens ==
    { <<"a","p","p"," ">>, <<"1",".","0",".","0"," ">>, <<"2",".","4",".","6">>, <<"3",".","5"," ">>,
      <<"-","-","v","e","r","s","i","o","n","=">>, <<"-","-","V","E","R","S","I","O","N"," ">>, <<"-","v"," ">>, <<"v","e","r","s","i","o","n",":">> }
RECURSIVE Concat(_)
Concat(pieces) ==
    IF pieces = << >> THEN << >> ELSE Head(pieces) \o Concat(Tail(pieces))
CommandLines ==
    { Concat(pieces) : pieces \in UNION { [1..n -> CommandTokens] : n \in 0..MaxTokens } }

CommandIdle ==
    /\ cmdPc = "idle"
    /\ cmdLine = << >>
    /\ cmdVersion = Null
CommandInit ==
    /\ cmdPc = "extractVersionFromCommand"
    /\ cmdLine \in CommandLines
    /\ cmdVersion = Null

\* one call of extractVersionFromCommand(cmd)
extractVersionFromCommand ==
    /\ cmdPc = "extractVersionFromCommand"
    /\ cmdVersion' = ExtractVersionFromCommand(cmdLine)
    /\ cmdPc' = "returned"
    /\ UNCHANGED <<cmdLine, proxyVars, detectVars, startVars, extractVars, listenerVars>>

(***************************************************************************)
(*                 SEVERAL startProxy CALLS IN ONE PROCESS                 *)
(***************************************************************************)
\* startProxy is exported: a program may call it more than once and keep the
\* cleanup functions. MaxProxyCalls bounds the calls, MaxCleanups the times one
\* cleanup function is called.
MaxProxyCalls == 3
MaxCleanups == 2

\* a listener: the signal and the call whose sigintHandler or sigtermHandler it is
Listener(signal, call) == [signal |-> signal, call |-> call]

ListenerIdle ==
    /\ proxyCalls = << >>
    /\ listeners = << >>

\* startProxy(config) up to its await of startStdioServer
startProxyCalled ==
    /\ Len(proxyCalls) < MaxProxyCalls
    /\ proxyCalls' = Append(proxyCalls, [status |-> "pending", cleanups |-> 0])
    /\ UNCHANGED <<listeners, proxyVars, detectVars, startVars, extractVars, commandVars>>

\* process.on("SIGINT", sigintHandler); process.on("SIGTERM", sigtermHandler)
ListenersAdded(call) == << Listener("SIGINT", call), Listener("SIGTERM", call) >>

\* startStdioServer resolved: the call adds its listeners and returns cleanup
startProxyReturns ==
    \E c \in 1..Len(proxyCalls) :
        /\ proxyCalls[c].status = "pending"
        /\ listeners' = listeners \o ListenersAdded(c)
        /\ proxyCalls' = [proxyCalls EXCEPT ![c].status = "resolved"]
        /\ UNCHANGED <<proxyVars, detectVars, startVars, extractVars, commandVars>>

\* startStdioServer rejected: the catch logs and rethrows
startProxyThrows ==
    \E c \in 1..Len(proxyCalls) :
        /\ proxyCalls[c].status = "pending"
        /\ proxyCalls' = [proxyCalls EXCEPT ![c].status = "rejected"]
        /\ UNCHANGED <<listeners, proxyVars, detectVars, startVars, extractVars, commandVars>>

\* process.removeListener(signal, handler) for the two handlers of the call
ListenersKeptNone(call) == << >>
ListenersKept(call) ==
    SelectSeq(listeners, LAMBDA l : l.call # call)

\* the cleanup function a resolved call returned is called
cleanup ==
    \E c \in 1..Len(proxyCalls) :
        /\ proxyCalls[c].status = "resolved"
        /\ proxyCalls[c].cleanups < MaxCleanups
        /\ listeners' = ListenersKept(c)
        /\ proxyCalls' = [proxyCalls EXCEPT ![c].cleanups = @ + 1]
        /\ UNCHANGED <<proxyVars, detectVars, startVars, extractVars, commandVars>>

(***************************************************************************)
(*                           SPECIFICATIONS                                *)
(***************************************************************************)
\* Wiring alone, for every capability descriptor.
InitWiring == ProxyInit(Capabilities) /\ DetectIdle /\ StartIdle /\ ExtractIdle /\ CommandIdle /\ ListenerIdle
NextWiring ==
    \/ proxyServer
    \/ SwapUpstream
SpecWiring == InitWiring /\ [][NextWiring]_vars

\* Wiring and forwarding.
InitProxy == ProxyInit(SampleCapabilities) /\ DetectIdle /\ StartIdle /\ ExtractIdle /\ CommandIdle /\ ListenerIdle
NextProxy ==
    \/ proxyServer
    \/ SwapUpstream
    \/ DownstreamRequest
    \/ DownstreamNotification
    \/ UpstreamNotification
    \/ Settle
SpecProxy == InitProxy /\ [][NextProxy]_vars

InitDetect == DetectInit /\ ProxyIdle /\ StartIdle /\ ExtractIdle /\ CommandIdle /\ ListenerIdle
NextDetect ==
    \/ extractClientInfoFromParent
    \/ findRealClientMaxDepth
    \/ findRealClient
    \/ identifyClientFromProcess
SpecDetect == InitDetect /\ [][NextDetect]_vars

\* Startup of the process run by cli.ts, which drops what main returns.
InitStartup == StartInit /\ ProxyIdle /\ ExtractIdle /\ CommandIdle /\ ListenerIdle
NextStartup ==
    \/ main
    \/ extractClientInfoFromParent
    \/ findRealClientMaxDepth
    \/ findRealClient
    \/ identifyClientFromProcess
    \/ createHttpClient
    \/ stdioServerConnect
    \/ installProxy
    \/ proxyServerRejects
    \/ startProxy
    \/ startProxyCatch
    \/ mainCatch
    \/ SignalReceived
    \/ ForwardRequest
    \/ ForwardSettle
SpecStartup == InitStartup /\ [][NextStartup]_vars

\* One call of getProxyConfig.
InitConfig == ConfigInit /\ ProxyIdle /\ DetectIdle /\ ExtractIdle /\ CommandIdle /\ ListenerIdle
NextConfig == getProxyConfig
SpecConfig == InitConfig /\ [][NextConfig]_vars

\* One call of extractVersionFromCommand.
InitCommand ==
    CommandInit /\ ProxyIdle /\ DetectIdle /\ StartIdle /\ ExtractIdle /\ ListenerIdle
NextCommand == extractVersionFromCommand
SpecCommand == InitCommand /\ [][NextCommand]_vars

\* startProxy called several times in one process, and the cleanup functions.
InitSignals ==
    ListenerIdle /\ ProxyIdle /\ DetectIdle /\ StartIdle /\ ExtractIdle /\ CommandIdle
NextSignals ==
    \/ startProxyCalled
    \/ startProxyReturns
    \/ startProxyThrows
    \/ cleanup
SpecSignals == InitSignals /\ [][NextSignals]_vars

\* One call of VersionExtractor.extractVersion.
InitExtract == ExtractInit /\ ProxyIdle /\ StartIdle /\ CommandIdle /\ ListenerIdle
NextExtract ==
    \/ extractVersion
    \/ extractMacOSVersion
    \/ extractFromPlist
    \/ extractWindowsVersion
    \/ extractLinuxVersion
SpecExtract == InitExtract /\ [][NextExtract]_vars

(***************************************************************************)
(*                        PROPERTIES: PROXY ENGINE                         *)
(***************************************************************************)
\* The upstream method each request schema corresponds to.
CorrespondingMethod ==
    [s \in RequestSchemas |->
        CASE s = "GetPromptRequestSchema" -> "getPrompt"
          [] s = "ListPromptsRequestSchema" -> "listPrompts"
          [] s = "ListResourcesRequestSchema" -> "listResources"
          [] s = "ListResourceTemplatesRequestSchema" -> "listResourceTemplates"
          [] s = "ReadResourceRequestSchema" -> "readResource"
          [] s = "SubscribeRequestSchema" -> "subscribeResource"
          [] s = "UnsubscribeRequestSchema" -> "unsubscribeResource"
          [] s = "CallToolRequestSchema" -> "callTool"
          [] s = "ListToolsRequestSchema" -> "listTools"
          [] s = "CompleteRequestSchema" -> "complete"]

CallsBy(i) == { k \in 1..Len(calls) : calls[k].by = i }
Count(regs, schema) == Cardinality({ i \in 1..Len(regs) : regs[i].schema = schema })
SchemasOf(regs) == { regs[i].schema : i \in 1..Len(regs) }
ClientCount(schema) ==
    Cardinality({ <<c, i>> \in Clients \X (1..2) :
                    /\ i <= Len(clientNotificationHandlers[c])
                    /\ clientNotificationHandlers[c][i].schema = schema })
ClientRegistrations ==
    Cardinality({ <<c, i>> \in Clients \X (1..2) :
                    i <= Len(clientNotificationHandlers[c]) })

\* C1: every invocation of a registered downstream request handler with
\* params P makes exactly one call, on an upstream object, to the method that
\* corresponds to the request, with P itself as the argument, and once that
\* call has resolved the handler has resolved to the very same value.
C1_RequestForwardedVerbatim ==
    \A i \in 1..Len(invocations) :
        invocations[i].schema \in RequestSchemas =>
            /\ Cardinality(CallsBy(i)) = 1
            /\ \A k \in CallsBy(i) :
                  /\ calls[k].peer \in Clients
                  /\ calls[k].method = CorrespondingMethod[invocations[i].schema]
                  /\ calls[k].arg = invocations[i].args.params
                  /\ calls[k].outcome.status = "resolved" =>
                         invocations[i].outcome = calls[k].outcome

C1_Witness ==
    \E i \in 1..Len(invocations) :
        /\ invocations[i].schema = "CallToolRequestSchema"
        /\ invocations[i].args.params.is = "null"
        /\ invocations[i].outcome.status = "resolved"

\* The request schemas a capability descriptor calls for.
ExpectedRequestSchemas(caps) ==
    {"CompleteRequestSchema"}
    \cup (IF caps.prompts
          THEN {"GetPromptRequestSchema", "ListPromptsRequestSchema"} ELSE {})
    \cup (IF caps.resources \in {"empty", "subscribeFalse", "subscribeTrue"}
          THEN {"ListResourcesRequestSchema", "ListResourceTemplatesRequestSchema",
                "ReadResourceRequestSchema"} ELSE {})
    \cup (IF caps.resources = "subscribeTrue"
          THEN {"SubscribeRequestSchema", "UnsubscribeRequestSchema"} ELSE {})
    \cup (IF caps.tools
          THEN {"CallToolRequestSchema", "ListToolsRequestSchema"} ELSE {})

\* C2: once proxyServer has run, the request handlers registered downstream
\* are exactly those the capability descriptor calls for, each registered
\* once: 10 with everything enabled, 1 (complete) with an empty descriptor;
\* before it has run none is registered.
C2_ExactRequestHandlerSet ==
    /\ ~wired => requestHandlers = << >>
    /\ wired =>
          /\ SchemasOf(requestHandlers) = ExpectedRequestSchemas(serverCapabilities)
          /\ \A s \in RequestSchemas : Count(requestHandlers, s) <= 1
          /\ serverCapabilities = AllCapabilities => Len(requestHandlers) = 10
          /\ serverCapabilities = NoCapabilities => Len(requestHandlers) = 1

C2_Witness ==
    /\ wired
    /\ serverCapabilities = AllCapabilities
    /\ Len(requestHandlers) = 10

\* C3: when the call a handler made (an upstream request or a forwarded
\* logging notification) has rejected with E, the handler has rejected with
\* the identical E, and that call is the only one the invocation made.
C3_RejectionPropagatedVerbatim ==
    \A k \in 1..Len(calls) :
        calls[k].outcome.status = "rejected" =>
            /\ invocations[calls[k].by].outcome = calls[k].outcome
            /\ CallsBy(calls[k].by) = {k}

C3_Witness ==
    /\ \E k \in 1..Len(calls) :
          /\ calls[k].outcome.status = "rejected"
          /\ invocations[calls[k].by].schema \in RequestSchemas
    /\ \E k \in 1..Len(calls) :
          /\ calls[k].outcome.status = "rejected"
          /\ invocations[calls[k].by].schema = "LoggingMessageNotificationSchema"

\* C4: the upstream object of every call a downstream handler makes is decided
\* by what the resolver answers in the step the call is made: that answer if a
\* resolver was supplied and answers an upstream object, the client argument
\* of proxyServer otherwise.
C4_UpstreamResolvedAtCallTime ==
    [][\A k \in (Len(calls) + 1)..Len(calls') :
          invocations'[calls'[k].by].on = "server" =>
              calls'[k].peer = (IF getClient \in Clients \ {"client"}
                                THEN getClient ELSE "client")]_vars

C4_Witness ==
    \E j, k \in 1..Len(calls) :
        /\ j < k
        /\ calls[j].peer = "alternate"
        /\ calls[k].peer = "client"
        /\ getClient = "null"

\* C5: with logging present exactly one logging handler is registered on the
\* downstream peer and one on an upstream object, with logging absent none on
\* either; every logging notification a peer receives makes exactly one
\* notification call on the opposite peer with the notification object itself,
\* and a forward triggers no further forward.
C5_LoggingForwardedBothWays ==
    /\ wired /\ serverCapabilities.logging =>
          /\ Count(serverNotificationHandlers, "LoggingMessageNotificationSchema") = 1
          /\ ClientCount("LoggingMessageNotificationSchema") = 1
    /\ ~(wired /\ serverCapabilities.logging) =>
          /\ Count(serverNotificationHandlers, "LoggingMessageNotificationSchema") = 0
          /\ ClientCount("LoggingMessageNotificationSchema") = 0
    /\ \A i \in 1..Len(invocations) :
          invocations[i].schema = "LoggingMessageNotificationSchema" =>
              /\ Cardinality(CallsBy(i)) = 1
              /\ \A k \in CallsBy(i) :
                    /\ calls[k].method = "notification"
                    /\ calls[k].arg = invocations[i].args
                    /\ invocations[i].on = "server" => calls[k].peer \in Clients
                    /\ invocations[i].on \in Clients => calls[k].peer = "server"
    /\ Len(calls) = Len(invocations)

C5_Witness ==
    /\ \E i \in 1..Len(invocations) :
          /\ invocations[i].schema = "LoggingMessageNotificationSchema"
          /\ invocations[i].on = "server"
    /\ \E i \in 1..Len(invocations) :
          /\ invocations[i].schema = "LoggingMessageNotificationSchema"
          /\ invocations[i].on \in Clients

\* C6: with resources.subscribe true exactly one resource-updated notification
\* handler is registered, on the upstream peer, forwarding to the downstream
\* peer; with every capability enabled the upstream peer holds two
\* notification handlers and the downstream peer one.
C6_ResourceUpdatedOnUpstream ==
    /\ wired /\ serverCapabilities.resources = "subscribeTrue" =>
          /\ ClientCount("ResourceUpdatedNotificationSchema") = 1
          /\ Count(serverNotificationHandlers, "ResourceUpdatedNotificationSchema") = 0
    /\ wired /\ serverCapabilities = AllCapabilities =>
          /\ ClientRegistrations = 2
          /\ Len(serverNotificationHandlers) = 1

\* C7: with resources present but subscribe absent or false the three base
\* resource request handlers are registered, and neither subscribe nor
\* unsubscribe nor a resource-updated handler is registered on any peer.
C7_SubscriptionGatedSeparately ==
    wired /\ serverCapabilities.resources \in {"empty", "subscribeFalse"} =>
        /\ {"ListResourcesRequestSchema", "ListResourceTemplatesRequestSchema",
            "ReadResourceRequestSchema"} \subseteq SchemasOf(requestHandlers)
        /\ SchemasOf(requestHandlers)
               \cap {"SubscribeRequestSchema", "UnsubscribeRequestSchema"} = {}
        /\ Count(serverNotificationHandlers, "ResourceUpdatedNotificationSchema") = 0
        /\ ClientCount("ResourceUpdatedNotificationSchema") = 0

C7_Witness ==
    /\ wired
    /\ serverCapabilities.resources = "empty"
    /\ serverCapabilities.logging
    /\ Len(requestHandlers) = 4

(***************************************************************************)
(*                   PROPERTIES: CLIENT IDENTITY RESOLVER                  *)
(***************************************************************************)
LastLookup == lookups[Len(lookups)]
\* an intermediary with a parent pid, which the traversal steps over
IsSkipped(l) ==
    /\ l.found.status = "found"
    /\ Classified[KindOf(l.found)] = "intermediary"
    /\ l.found.ppid # 0
IsRealClient(l) ==
    /\ l.found.status = "found"
    /\ Classified[KindOf(l.found)] = "client"
LookupFailed(l) ==
    \/ l.found.status \in {"throws", "empty"}
    \/ l.found.status = "found" /\ Classified[KindOf(l.found)] = "throws"
ExtractionFailed ==
    versionResult.called /\ (versionResult.threw \/ versionResult.version = Null)

\* C8 as stated: resolution never rejects, and whenever the process lookup
\* throws or finds nothing, or any later identification step fails, at any
\* depth, it resolves to the default identity.
C8_AnyFailureYieldsDefault ==
    pc = "done" =>
        /\ clientInfo.status = "resolved"
        /\ lookups # << >> /\ LookupFailed(LastLookup) => clientInfo = DefaultIdentity
        /\ ExtractionFailed => clientInfo = DefaultIdentity

\* C8 as amended: resolution never rejects; when the process lookup throws or
\* finds nothing, or the process record cannot be classified, at any depth, it
\* resolves to the default identity; when only the version extraction fails
\* it resolves to the identity named after the process found, with the
\* version parsed from its command line or else "unknown".
C8_NeverRejects ==
    pc = "done" =>
        /\ clientInfo.status = "resolved"
        /\ lookups # << >> /\ LookupFailed(LastLookup) => clientInfo = DefaultIdentity
        /\ ExtractionFailed =>
              /\ clientInfo.name # DefaultIdentity.name
              /\ clientInfo.name[1] = GetOSName(platform)
              /\ clientInfo.version =
                     (IF CommandVersion[KindOf(LastLookup.found)] # Null
                      THEN CommandVersion[KindOf(LastLookup.found)] ELSE Unknown)

C8_Witness ==
    /\ pc = "done"
    /\ Len(lookups) = 3
    /\ LastLookup.found.status = "throws"
    /\ clientInfo = DefaultIdentity

\* C9: the traversal follows the parent links over intermediaries only; it
\* gives up on a chain of intermediaries with parents no earlier than after
\* the fifth, and the first process found that is no intermediary (after 0 to
\* 4 intermediaries) is the one and only process identified: the resolution
\* yields the identity of that process.
C9_FirstNonIntermediaryIdentified ==
    /\ \A j \in 1..(Len(lookups) - 1) :
          /\ IsSkipped(lookups[j])
          /\ lookups[j + 1].pid = lookups[j].found.ppid
    /\ lookups # << >> => lookups[1].pid = parentPid
    /\ pc = "done" /\ (\A j \in 1..Len(lookups) : IsSkipped(lookups[j]))
           /\ parentPid # 0 => Len(lookups) = 5
    /\ identified # << >> => identified = << LastLookup.found >>
    /\ \A j \in 1..Len(lookups) :
          IsRealClient(lookups[j]) =>
              /\ j = Len(lookups)
              /\ identified = << lookups[j].found >>
              /\ pc \in {"identifyClientFromProcess", "done"}
              /\ pc = "done" =>
                     clientInfo = Identification[KindOf(lookups[j].found), platform,
                                      [threw |-> versionResult.threw,
                                       version |-> versionResult.version]]

C9_Witness ==
    /\ pc = "done"
    /\ Len(lookups) = 5
    /\ \A j \in 1..4 : IsSkipped(lookups[j])
    /\ IsRealClient(lookups[5])
    /\ clientInfo # DefaultIdentity
    /\ clientInfo.status = "resolved"

\* C10: one resolution looks up at most 5 processes, at depths 0 to 4; when
\* all five are intermediaries with parents it resolves to the default
\* identity, identifying no process and looking no further, also when the
\* parent links form a cycle; and until it has resolved it can always go on.
C10_TraversalBounded ==
    /\ Len(lookups) <= 5
    /\ \A j \in 1..Len(lookups) : lookups[j].depth = j - 1
    /\ Len(lookups) = 5 /\ (\A j \in 1..5 : IsSkipped(lookups[j])) =>
          /\ identified = << >>
          /\ pc \in {"findRealClient", "done"}
          /\ pc = "done" => clientInfo = DefaultIdentity
    /\ pc # "done" => ENABLED NextDetect

C10_Witness ==
    /\ pc = "done"
    /\ Len(lookups) = 5
    /\ \A j \in 1..5 : IsSkipped(lookups[j])
    /\ \E i, j \in 1..5 : i < j /\ lookups[i].pid = lookups[j].pid
    /\ clientInfo = DefaultIdentity

\* an intermediary without a parent pid
IsOrphanIntermediary(l) ==
    /\ l.found.status = "found"
    /\ Classified[KindOf(l.found)] = "intermediary"
    /\ l.found.ppid = 0

\* C11: when the proxy has no parent pid the resolution yields the default
\* identity and looks up no process; and a looked-up intermediary without a
\* parent pid ends the traversal: it is the last process looked up, no process
\* is identified and the resolution yields the default identity.
C11_NoParentYieldsDefault ==
    /\ parentPid = 0 =>
          /\ lookups = << >>
          /\ identified = << >>
          /\ pc \in {"extractClientInfoFromParent", "done"}
          /\ pc = "done" => clientInfo = DefaultIdentity
    /\ \A j \in 1..Len(lookups) :
          IsOrphanIntermediary(lookups[j]) =>
              /\ j = Len(lookups)
              /\ identified = << >>
              /\ extractorCalls = 0
              /\ pc = "done"
              /\ clientInfo = DefaultIdentity

C11_Witness ==
    /\ pc = "done"
    /\ Len(lookups) = 3
    /\ IsSkipped(lookups[1]) /\ IsSkipped(lookups[2])
    /\ IsOrphanIntermediary(lookups[3])
    /\ clientInfo = DefaultIdentity

\* the process handed to identifyClientFromProcess
IdentifiedKind == KindOf(identified[1])
HasExecutablePath == identified # << >> /\ ExtractorCalled[IdentifiedKind, platform]

\* C12: a process that is no intermediary and has an extractable executable
\* path is resolved to the name "<OSName>//<appName>", with the version the
\* version extractor returned if it returned one, otherwise the version parsed
\* from the command line if there is one, otherwise "unknown"; the same holds
\* when the version extractor throws.
C12_VersionPriority ==
    pc = "done" /\ HasExecutablePath =>
        /\ versionResult.called
        /\ clientInfo.status = "resolved"
        /\ clientInfo.name = << GetOSName(platform), "//" >> \o AppName[IdentifiedKind, platform]
        /\ clientInfo.version =
              (IF ~versionResult.threw /\ versionResult.version \notin {Null, << >>}
               THEN versionResult.version
               ELSE IF CommandVersion[IdentifiedKind] # Null
               THEN CommandVersion[IdentifiedKind]
               ELSE Unknown)

C12_Witness ==
    /\ pc = "done"
    /\ platform = "win32"
    /\ HasExecutablePath
    /\ versionResult.called /\ versionResult.threw
    /\ clientInfo.name = << "Windows", "//", "C", "u", "r", "s", "o", "r" >>
    /\ clientInfo.version = << "3", ".", "1", ".", "4" >>

\* C13: when no executable path can be extracted from the command line and
\* name of the process to identify, the resolution yields exactly the default
\* identity and the version extractor is not called.
C13_NoPathYieldsDefault ==
    identified # << >> /\ ExecutablePath[IdentifiedKind, platform] = Null =>
        /\ extractorCalls = 0
        /\ ~versionResult.called
        /\ pc = "done" => clientInfo = DefaultIdentity

C13_Witness ==
    /\ pc = "done"
    /\ identified # << >>
    /\ identified[1].hasCmd
    /\ identified[1].cmd = identified[1].name
    /\ ExecutablePath[IdentifiedKind, platform] = Null
    /\ clientInfo = DefaultIdentity

(***************************************************************************)
(*                          PROPERTIES: STARTUP                            *)
(***************************************************************************)
StartupOrder ==
    << "extractClientInfoFromParent", "client.connect", "getServerVersion",
       "getServerCapabilities", "stdioServer.connect", "proxyServer" >>
StartupFailed == config.status = "threw" \/ startResult.status = "rejected"

\* C14: startStdioServer begins its steps in the order identity, upstream
\* connect, read of the upstream's version and capabilities, downstream
\* create and connect, proxy installation; the upstream client is constructed
\* with exactly the identity resolved and with empty capabilities; a step that
\* fails rejects startStdioServer with the error of that step, and once it has
\* rejected no further step is begun and nothing more is connected or wired.
C14_StartupOrder ==
    /\ [](/\ steps = SubSeq(StartupOrder, 1, Len(steps))
          /\ Len(steps) >= 2 => pc = "done"
          /\ upstream.status # "none" =>
                /\ Len(steps) >= 2
                /\ upstream.clientInfo = [name |-> clientInfo.name,
                                          version |-> clientInfo.version]
                /\ upstream.capabilities = {}
          /\ Len(steps) >= 3 => upstream.status = "connected"
          /\ downstream.status # "none" => Len(steps) >= 5
          /\ Len(steps) = 6 => downstream.status = "connected"
          /\ wired => Len(steps) = 6
          /\ upstream.status = "failed" =>
                startResult = Rejected(upstream.error) /\ Len(steps) = 2
          /\ downstream.status = "failed" =>
                startResult = Rejected(downstream.error) /\ Len(steps) = 5
          /\ startResult.status = "rejected" => ~wired
          /\ startResult.status = "resolved" => wired)
    /\ [][startResult.status = "rejected" =>
             /\ steps' = steps
             /\ upstream' = upstream
             /\ downstream' = downstream
             /\ startResult' = startResult
             /\ UNCHANGED proxyVars]_vars

C14_Witness ==
    /\ startPc = "exited"
    /\ downstream.status = "failed"
    /\ startResult = Rejected("ETIMEDOUT")
    /\ upstream.status = "connected"
    /\ upstream.clientInfo.name # DefaultIdentity.name
    /\ Len(steps) = 5
    /\ ~wired

\* C15: the downstream server is constructed with exactly the name and version
\* and the capabilities the connected upstream reported, and proxyServer is
\* given the same capabilities: the handlers wired are those of the
\* capabilities advertised downstream.
C15_AdvertisedEqualsWired ==
    /\ downstream.status # "none" =>
          /\ upstream.status = "connected"
          /\ downstream.info = upstream.serverVersion
          /\ downstream.capabilities = upstream.serverCapabilities
    /\ startPc = "proxyServer" \/ wired =>
          /\ downstream.status = "connected"
          /\ serverCapabilities = downstream.capabilities
    /\ wired =>
          /\ requestHandlers = ServerRequestHandlers(downstream.capabilities)
          /\ serverNotificationHandlers = ServerNotificationHandlers(downstream.capabilities)
          /\ clientNotificationHandlers["client"] =
                 ClientNotificationHandlers(downstream.capabilities)

C15_Witness ==
    /\ startPc = "running"
    /\ wired
    /\ downstream.capabilities.tools
    /\ downstream.info.name = "staging"
    /\ Len(requestHandlers) = 3

C17_SignalExitsZero ==
    /\ startPc = "running" =>
          /\ proxyResult.status = "resolved"
          /\ signalHandlers = Signals
          /\ ENABLED SignalReceived
    /\ signalHandlers # {} => proxyResult.status = "resolved"
    /\ (\E i \in 1..Len(exits) : exits[i] = 0) =>
          /\ exits = << 0 >>
          /\ startResult.status = "resolved"
          /\ proxyResult.status = "resolved"
          /\ wired
    /\ proxyResult.status = "resolved" /\ startPc = "exited" => exits = << 0 >>

C17_Witness ==
    /\ startPc = "exited"
    /\ exits = << 0 >>
    /\ Len(calls) = 2
    /\ calls[1].outcome.status = "pending"
    /\ calls[2].outcome.status = "rejected"

(***************************************************************************)
(*                  PROPERTIES: CONCURRENCY AND ORDERING                   *)
(***************************************************************************)
\* C18: with several requests in flight, each handler's outcome is the outcome
\* of the one call it made itself, in whatever order the calls settle: a
\* handler is pending exactly as long as its own call is, a settling call
\* settles its own handler and no other, and a settled outcome never changes.
C18_OutcomesIndependent ==
    /\ [](\A i \in 1..Len(invocations) :
             /\ Cardinality(CallsBy(i)) = 1
             /\ \A k \in CallsBy(i) : invocations[i].outcome = calls[k].outcome)
    /\ [][\A i \in 1..Len(invocations) :
             /\ invocations[i].outcome.status # "pending" =>
                   invocations'[i] = invocations[i]
             /\ invocations'[i] # invocations[i] =>
                   \A j \in 1..Len(invocations) : j # i => invocations'[j] = invocations[j]]_vars

C18_Witness ==
    /\ Len(invocations) = 2
    /\ invocations[1].on = "server" /\ invocations[2].on = "server"
    /\ invocations[1].schema \in RequestSchemas
    /\ invocations[2].schema \in RequestSchemas
    /\ invocations[1].outcome.status = "pending"
    /\ invocations[2].outcome = [status |-> "rejected", value |-> << "error", 2 >>]

\* C19: forwards are not reordered: a handler makes its call in the step in
\* which it is invoked, so the k-th call on the peers is the call of the k-th
\* invocation and carries that invocation's message.
C19_ForwardOrderPreserved ==
    /\ [](/\ Len(calls) = Len(invocations)
          /\ \A k \in 1..Len(calls) :
                /\ calls[k].by = k
                /\ calls[k].arg \in {invocations[k].args, invocations[k].args.params})
    /\ [][Len(invocations') > Len(invocations) =>
             /\ Len(calls') = Len(calls) + 1
             /\ SubSeq(calls', 1, Len(calls)) = calls
             /\ calls'[Len(calls')].by = Len(invocations')]_vars

C19_Witness ==
    /\ Len(calls) = 2
    /\ invocations[1].schema # invocations[2].schema
    /\ invocations[1].args.params # invocations[2].args.params
    /\ calls[1].method = CorrespondingMethod[invocations[1].schema]
    /\ calls[2].method = CorrespondingMethod[invocations[2].schema]
    /\ calls[1].arg = invocations[1].args.params
    /\ calls[2].arg = invocations[2].args.params

(***************************************************************************)
(*                     PROPERTIES: VERSION EXTRACTOR                       *)
(***************************************************************************)
CollaboratorThrew == \E i \in 1..Len(fileReads) : fileReads[i].op = "throw"

\* C20: extractVersion never throws and always returns: when an import, a file
\* read or a parser throws, on any platform, the result has source "fallback",
\* the text of the error and no version; on a platform other than darwin,
\* win32 and linux the result is the fallback error "Unsupported platform:
\* <platform>" and nothing is imported or read.
C20_ExtractVersionNeverThrows ==
    /\ extracted.status \in {"pending", "returned"}
    /\ extractPc = "done" <=> extracted.status = "returned"
    /\ extractPc # "done" => ENABLED NextExtract
    /\ CollaboratorThrew =>
          /\ extractPc = "done"
          /\ extracted = Result("fallback", Null, fileReads[Len(fileReads)].what)
    /\ platform \notin {"darwin", "win32", "linux"} =>
          /\ fileReads = << >>
          /\ extractPc \in {"extractVersion", "done"}
          /\ extractPc = "done" =>
                extracted = Result("fallback", Null, << "Unsupported platform: ", platform >>)

C20_Witness ==
    /\ extractPc = "done"
    /\ platform = "darwin"
    /\ Len(fileReads) = 3
    /\ fileReads[2].op = "readFileSync"
    /\ fileReads[3] = [op |-> "throw", what |-> << "boom" >>]
    /\ extracted = [status |-> "returned", source |-> "fallback", version |-> Null,
                    error |-> << "boom" >>]

\* the version the process name carries, if any
ProcessNameVersion ==
    IF extractArgs.processName \in {Null, << >>} THEN Null
    ELSE ShortVersionMatch(extractArgs.processName)

\* C21: on darwin, whenever no enclosing bundle is found or the bundle's plist
\* yields no version, the result is the first version-shaped substring of the
\* process name with source "fallback", and a fallback error only when the
\* process name has none.
C21_ProcessNameFallback ==
    platform = "darwin" /\ extractPc = "done" /\ extracted.source # "plist" =>
        IF ProcessNameVersion # Null
        THEN extracted = Result("fallback", ProcessNameVersion, Null)
        ELSE /\ extracted.source = "fallback"
             /\ extracted.version = Null
             /\ extracted.error # Null

\* C22: when a bundle is found and its Info.plist is read and parsed, the
\* result is the first value present (set and not empty) among
\* CFBundleShortVersionString, CFBundleVersion and CFBundleVersionString, in
\* that order, as a string, with source "plist" and no error.
C22_PlistKeyOrder ==
    answered.kind = "plist" =>
        /\ platform = "darwin"
        /\ extractPc = "done"
        /\ AppBundle[extractArgs.executablePath] # Null
        /\ fileReads = << Import("plist"),
                          ReadFile(AppBundle[extractArgs.executablePath]
                                   \o <<"/","C","o","n","t","e","n","t","s","/","I","n","f","o",".","p","l","i","s","t">>) >>
        /\ LET short == answered.value.CFBundleShortVersionString
               build == answered.value.CFBundleVersion
               long == answered.value.CFBundleVersionString
           IN  /\ Truthy(short) =>
                     extracted = [status |-> "returned", source |-> "plist",
                                  version |-> short.text, error |-> Null]
               /\ ~Truthy(short) /\ Truthy(build) =>
                     extracted = [status |-> "returned", source |-> "plist",
                                  version |-> build.text, error |-> Null]
               /\ ~Truthy(short) /\ ~Truthy(build) /\ Truthy(long) =>
                     extracted = [status |-> "returned", source |-> "plist",
                                  version |-> long.text, error |-> Null]

C22_Witness ==
    /\ answered.kind = "plist"
    /\ answered.value.CFBundleShortVersionString = Absent
    /\ answered.value.CFBundleVersion # Absent
    /\ answered.value.CFBundleVersionString # Absent
    /\ extracted.source = "plist"
    /\ extracted.version = <<"4","5","6">>
    /\ extracted.error = Null

FieldPresent(field) == field \notin {Null, << >>}

\* C23: on win32 a finished extraction returns the FileVersion when the
\* version information has one, otherwise the ProductVersion, in both cases
\* with source "executable" and no error; when the version information has
\* neither, or the import or the read threw, it returns source "fallback" with
\* an error and no version.
C23_WindowsFileThenProduct ==
    platform = "win32" /\ extractPc = "done" =>
        /\ answered.kind = "versionInfo" /\ FieldPresent(answered.value.FileVersion) =>
              extracted = [status |-> "returned", source |-> "executable",
                           version |-> answered.value.FileVersion, error |-> Null]
        /\ (/\ answered.kind = "versionInfo"
            /\ ~FieldPresent(answered.value.FileVersion)
            /\ FieldPresent(answered.value.ProductVersion)) =>
              extracted = [status |-> "returned", source |-> "executable",
                           version |-> answered.value.ProductVersion, error |-> Null]
        /\ (\/ /\ answered.kind = "versionInfo"
               /\ ~FieldPresent(answered.value.FileVersion)
               /\ ~FieldPresent(answered.value.ProductVersion)
            \/ CollaboratorThrew)
           => /\ extracted.status = "returned"
              /\ extracted.source = "fallback"
              /\ extracted.version = Null
              /\ extracted.error # Null
        /\ answered.kind = "versionInfo" \/ CollaboratorThrew

C23_Witness ==
    /\ platform = "win32"
    /\ extractPc = "done"
    /\ answered.kind = "versionInfo"
    /\ answered.value.FileVersion = << >>
    /\ answered.value.ProductVersion = <<"3",".","1">>
    /\ extracted.source = "executable"
    /\ extracted.version = <<"3",".","1">>

\* the string without its leading and trailing blanks
Trim(s) ==
    LET solid == { i \in 1..Len(s) : s[i] \notin {" ", "\t"} }
    IN  IF solid = {} THEN << >>
        ELSE SubSeq(s, CHOOSE i \in solid : \A j \in solid : i <= j,
                       CHOOSE i \in solid : \A j \in solid : i >= j)
EnvUsed == env # Null /\ Trim(env) # << >>

\* C24: getProxyConfig returns as targetUrl the value of MCP_TARGET_URL exactly
\* as it is set, blanks included, when it is set and something remains after
\* trimming, and "https://www.foundrole.com/mcp" otherwise; debugMode is true
\* exactly when the value of the environment was used.
C24_GetProxyConfig ==
    startPc = "getProxyConfig:returned" =>
        /\ config.status = "returned"
        /\ config.targetUrl = (IF EnvUsed THEN env ELSE DefaultTargetUrl)
        /\ config.debugMode = EnvUsed

C24_Witness ==
    /\ startPc = "getProxyConfig:returned"
    /\ env = << " ", "h", " " >>
    /\ config.targetUrl = << " ", "h", " " >>
    /\ config.debugMode

\* the capture of each of the four patterns on the command line, in the order
\* extractVersionFromCommand tries them
PatternCaptures ==
    << FlagVersionMatch(cmdLine, <<"-","-","v","e","r","s","i","o","n">>, {" ", "\t", "="}),
       FlagVersionMatch(cmdLine, <<"-","v">>, {" ", "\t", "="}),
       FlagVersionMatch(cmdLine, <<"v","e","r","s","i","o","n">>, {" ", "\t", "=", ":"}),
       BareVersionMatch(cmdLine) >>
PatternsMatching == { i \in 1..4 : PatternCaptures[i] # Null }

\* C25: extractVersionFromCommand returns the capture of the first pattern that
\* matches, in the order --version, -v, version, bare three-part version, and
\* null when none matches; "app --version=2.4.6" gives "2.4.6", and a version
\* after a flag wins over a bare version earlier in the string.
C25_PatternPriority ==
    cmdPc = "returned" =>
        /\ PatternsMatching = {} => cmdVersion = Null
        /\ PatternsMatching # {} =>
              cmdVersion = PatternCaptures[CHOOSE i \in PatternsMatching :
                                              \A j \in PatternsMatching : i <= j]
        /\ cmdLine = <<"a","p","p"," ","-","-","v","e","r","s","i","o","n","=","2",".","4",".","6">> => cmdVersion = <<"2",".","4",".","6">>
        /\ cmdLine = <<"1",".","0",".","0"," ","-","-","v","e","r","s","i","o","n","=","2",".","4",".","6">> => cmdVersion = <<"2",".","4",".","6">>
        /\ cmdLine = <<"1",".","0",".","0"," ","-","v"," ","2",".","4",".","6">> => cmdVersion = <<"2",".","4",".","6">>
        /\ cmdLine = <<"1",".","0",".","0"," ","v","e","r","s","i","o","n",":","2",".","4",".","6">> => cmdVersion = <<"2",".","4",".","6">>
        /\ cmdLine = <<"-","-","V","E","R","S","I","O","N"," ","3",".","5"," ","1",".","0",".","0"," ">> => cmdVersion = <<"1",".","0",".","0">>
        /\ cmdLine = <<"a","p","p"," ","3",".","5"," ">> => cmdVersion = Null

C25_Witness ==
    /\ cmdPc = "returned"
    /\ cmdLine = <<"1",".","0",".","0"," ","-","-","v","e","r","s","i","o","n","=","2",".","4",".","6">>
    /\ cmdVersion = <<"2",".","4",".","6">>

\* the downstream requests among the invocations
ForwardedRequests ==
    { i \in 1..Len(invocations) :
        invocations[i].on = "server" /\ invocations[i].schema \in RequestSchemas }

\* C26: a forwarded downstream request settles only when its upstream call
\* settles: while the call is pending the request is pending, whatever else
\* happens; the only step that settles a request is the step in which its
\* call settles, and that step gives the request the call's outcome.
C26_SettlesOnlyWithUpstream ==
    /\ [](\A i \in ForwardedRequests : \A k \in CallsBy(i) :
             /\ calls[k].peer \in Clients
             /\ calls[k].outcome.status = "pending" =>
                   invocations[i].outcome.status = "pending")
    /\ [][\A i \in ForwardedRequests : \A k \in CallsBy(i) :
             /\ invocations'[i].outcome # invocations[i].outcome =>
                   /\ calls[k].outcome.status = "pending"
                   /\ calls'[k].outcome.status # "pending"
             /\ calls'[k].outcome # calls[k].outcome =>
                   invocations'[i].outcome = calls'[k].outcome]_vars

C26_Witness ==
    /\ ForwardedRequests = {1, 2}
    /\ calls[1].outcome.status = "resolved"
    /\ invocations[1].outcome = calls[1].outcome
    /\ calls[2].outcome.status = "pending"
    /\ invocations[2].outcome.status = "pending"
    /\ getClient = "alternate"

\* C27: after a hot swap forwarding keeps working in both directions: once
\* proxyServer has run with logging present, the upstream object the resolver
\* currently answers holds the logging handler that forwards to the downstream
\* peer, also after the resolver has started answering another object.
C27_LoggingFollowsSwap ==
    wired /\ serverCapabilities.logging =>
        Registered(clientNotificationHandlers[GetCurrentClient(getClient)],
                   "LoggingMessageNotificationSchema")

ListenersOwed ==
    { Listener(sig, c) : sig \in {"SIGINT", "SIGTERM"},
                         c \in { d \in 1..Len(proxyCalls) :
                                   /\ proxyCalls[d].status = "resolved"
                                   /\ proxyCalls[d].cleanups = 0 } }

\* C29: at every point the SIGINT and SIGTERM listeners are exactly those of
\* the startProxy calls that completed successfully and whose cleanup function
\* has not been called, each once: a failed call adds none, and a cleanup
\* function removes the two listeners of its own call and no other.
C29_ListenersOfLiveCalls ==
    /\ [](/\ { listeners[i] : i \in 1..Len(listeners) } = ListenersOwed
          /\ Len(listeners) = Cardinality(ListenersOwed))
    /\ [][\A c \in 1..Len(proxyCalls) :
             /\ proxyCalls'[c].status = "rejected" /\ proxyCalls[c].status = "pending" =>
                   listeners' = listeners
             /\ proxyCalls'[c].cleanups > proxyCalls[c].cleanups =>
                   /\ \A i \in 1..Len(listeners') : listeners'[i].call # c
                   /\ listeners' = SelectSeq(listeners, LAMBDA l : l.call # c)]_vars

C29_Witness ==
    /\ Len(proxyCalls) = 3
    /\ proxyCalls[1] = [status |-> "resolved", cleanups |-> 1]
    /\ proxyCalls[2].status = "rejected"
    /\ proxyCalls[3] = [status |-> "resolved", cleanups |-> 0]
    /\ listeners = << Listener("SIGINT", 3), Listener("SIGTERM", 3) >>

====
